---- MODULE Spec2Model ----
(***************************************************************************)
(* A model of the rf95 package: the context-based Modem (OpenModem,        *)
(* worker, Close, RegisterHandlers, atCommand and the operations built on  *)
(* it) and the Stream layered over it.                                     *)
(*                                                                         *)
(* Strings are sequences of one-character strings, so that prefixes and    *)
(* the regular expressions of the source are computed, not assumed.        *)
(***************************************************************************)
EXTENDS Integers, Sequences, FiniteSets, TLC

(***************************************************************************)
(* Bounds of the model.                                                    *)
(***************************************************************************)
\* Lines the transport delivers in one run.
MaxLines == 3
\* Public operations the callers start in one run.
MaxCalls == 2
\* Capacity of msgQueue in the model; the program makes it with 128 slots.
QueueCap == 2
\* Public operations the callers start in one run on a device that answers
\* the commands written to it.
MaxStreamCalls == 3

(***************************************************************************)
(* Characters and strings.                                                 *)
(***************************************************************************)
Digits == {"0", "1", "2", "3", "4", "5", "6", "7", "8", "9"}

HexChars == Digits \cup {"a", "b", "c", "d", "e", "f", "A", "B", "C", "D", "E", "F"}

DigitVal(c) ==
    CASE c = "0" -> 0 [] c = "1" -> 1 [] c = "2" -> 2 [] c = "3" -> 3
      [] c = "4" -> 4 [] c = "5" -> 5 [] c = "6" -> 6 [] c = "7" -> 7
      [] c = "8" -> 8 [] c = "9" -> 9

HexVal(c) ==
    CASE c \in Digits -> DigitVal(c)
      [] c \in {"a", "A"} -> 10 [] c \in {"b", "B"} -> 11
      [] c \in {"c", "C"} -> 12 [] c \in {"d", "D"} -> 13
      [] c \in {"e", "E"} -> 14 [] c \in {"f", "F"} -> 15

HexDigit(n) ==
    CASE n < 10 -> CHOOSE c \in Digits : DigitVal(c) = n
      [] n = 10 -> "a" [] n = 11 -> "b" [] n = 12 -> "c"
      [] n = 13 -> "d" [] n = 14 -> "e" [] n = 15 -> "f"

\* strings.HasPrefix
HasPrefix(s, p) == Len(s) >= Len(p) /\ SubSeq(s, 1, Len(p)) = p

HasSuffix(s, p) == Len(s) >= Len(p) /\ SubSeq(s, Len(s) - Len(p) + 1, Len(s)) = p

DropPrefix(s, n) == SubSeq(s, n + 1, Len(s))

DropSuffix(s, n) == SubSeq(s, 1, Len(s) - n)

AllIn(s, class) == \A i \in 1..Len(s) : s[i] \in class

\* The text before a trailing "\r?\n"; <<"!">> when s does not end in "\n".
NoLineEnd == <<"!">>
StripLineEnd(s) ==
    IF ~HasSuffix(s, <<"\n">>) THEN NoLineEnd
    ELSE IF HasSuffix(s, <<"\r", "\n">>) THEN DropSuffix(s, 2)
    ELSE DropSuffix(s, 1)

EndsLine(s) == HasSuffix(s, <<"\n">>)

\* The fields of s between the separators sep.
RECURSIVE Split(_, _)
Split(s, sep) ==
    IF \A i \in 1..Len(s) : s[i] # sep THEN <<s>>
    ELSE LET k == CHOOSE i \in 1..Len(s) : s[i] = sep /\ \A j \in 1..(i - 1) : s[j] # sep
         IN  <<SubSeq(s, 1, k - 1)>> \o Split(SubSeq(s, k + 1, Len(s)), sep)

\* encoding/hex.EncodeToString: two lower-case digits per byte.
RECURSIVE HexEncode(_)
HexEncode(p) ==
    IF p = <<>> THEN <<>>
    ELSE <<HexDigit(Head(p) \div 16), HexDigit(Head(p) % 16)>> \o HexEncode(Tail(p))

\* encoding/hex.DecodeString on a string of hex digits: the bytes of the
\* complete pairs, and ErrLength when a digit is left over.
RECURSIVE HexPairs(_)
HexPairs(h) ==
    IF Len(h) < 2 THEN <<>>
    ELSE <<HexVal(h[1]) * 16 + HexVal(h[2])>> \o HexPairs(DropPrefix(h, 2))

HexDecodeString(h) == [bytes |-> HexPairs(h), err |-> Len(h) % 2 = 1]

\* The value of a string of decimal digits.
RECURSIVE DecimalValue(_)
DecimalValue(d) ==
    IF d = <<>> THEN 0
    ELSE DecimalValue(DropSuffix(d, 1)) * 10 + DigitVal(d[Len(d)])

\* strconv.Atoi: an optional sign, then one or more digits; 0 and an error
\* for anything else.
AtoiDigits(body, negative) ==
    IF body = <<>> \/ ~AllIn(body, Digits) THEN [n |-> 0, err |-> TRUE]
    ELSE [n |-> IF negative THEN 0 - DecimalValue(body) ELSE DecimalValue(body), err |-> FALSE]

\* Atoi with the sign left out of the value.
Atoi_unsigned(s) ==
    IF s # <<>> /\ s[1] \in {"-", "+"} THEN AtoiDigits(Tail(s), FALSE)
    ELSE AtoiDigits(s, FALSE)

Atoi(s) ==
    IF s # <<>> /\ s[1] \in {"-", "+"} THEN AtoiDigits(Tail(s), s[1] = "-")
    ELSE AtoiDigits(s, FALSE)

\* fmt.Sprintf("%d", n): the decimal digits of n, after a "-" when n < 0.
RECURSIVE DecimalText(_)
DecimalText(n) ==
    IF n < 10 THEN <<HexDigit(n)>> ELSE Append(DecimalText(n \div 10), HexDigit(n % 10))

Sprintd(n) == IF n < 0 THEN <<"-">> \o DecimalText(0 - n) ELSE DecimalText(n)

(***************************************************************************)
(* parsePacketRx: the fields of a "+RX" line.                              *)
(***************************************************************************)
ZeroRxMessage == [Payload |-> <<>>, Rssi |-> 0, Snr |-> 0]

RxPrefix == <<"+", "R", "X">>

\* rxRegexp: ^\+RX \d+,([0-9A-Fa-f]+),([-0-9]+),([-0-9]+)\r?\n$
\* No class of it holds ",", "\r" or "\n": the fields are those between the commas.
rxQuality == Digits \cup {"-"}

rxRegexpMatch(msg, fields) ==
    IF /\ Len(fields) = 4
       /\ \A i \in 1..4 : fields[i] # <<>>
       /\ AllIn(fields[1], Digits)
       /\ AllIn(fields[2], HexChars)
       /\ AllIn(fields[3], rxQuality)
       /\ AllIn(fields[4], rxQuality)
    THEN <<msg, fields[2], fields[3], fields[4]>>
    ELSE <<>>

rxRegexpFields(msg) ==
    IF EndsLine(msg) /\ HasPrefix(msg, RxPrefix \o <<" ">>)
    THEN rxRegexpMatch(msg, Split(DropPrefix(StripLineEnd(msg), 4), ","))
    ELSE <<>>

\* The conversions of parsePacketRx, one after the other: the first that
\* fails ends it, with the fields assigned so far.
rxConverted(payload, rssi, snr) ==
    IF payload.err THEN [rx |-> [ZeroRxMessage EXCEPT !.Payload = payload.bytes], err |-> TRUE]
    ELSE IF rssi.err
    THEN [rx |-> [Payload |-> payload.bytes, Rssi |-> rssi.n, Snr |-> 0], err |-> TRUE]
    ELSE [rx |-> [Payload |-> payload.bytes, Rssi |-> rssi.n, Snr |-> snr.n], err |-> snr.err]

rxFindings(findings) ==
    IF Len(findings) # 4 THEN [rx |-> ZeroRxMessage, err |-> TRUE]
    ELSE rxConverted(HexDecodeString(findings[2]), Atoi(findings[3]), Atoi(findings[4]))

parsePacketRx(msg) == rxFindings(rxRegexpFields(msg))

(***************************************************************************)
(* The replies Transmit and FetchStatus decode.                            *)
(***************************************************************************)
SentPrefix == <<"+", "S", "E", "N", "T", " ">>

SentSuffix == <<" ", "b", "y", "t", "e", "s", ".">>

OkPrefix == <<"+", "O", "K">>

\* respPattern: ^\+SENT (\d+) bytes\.\r?\n$
respPatternMatch(respMsg, count) ==
    IF count # <<>> /\ AllIn(count, Digits) THEN <<respMsg, count>> ELSE <<>>

respPatternBody(respMsg, body) ==
    IF /\ HasPrefix(body, SentPrefix)
       /\ HasSuffix(body, SentSuffix)
       /\ Len(body) > Len(SentPrefix) + Len(SentSuffix)
    THEN respPatternMatch(respMsg, SubSeq(body, Len(SentPrefix) + 1, Len(body) - Len(SentSuffix)))
    ELSE <<>>

respPatternCount(respMsg) ==
    IF EndsLine(respMsg) THEN respPatternBody(respMsg, StripLineEnd(respMsg)) ELSE <<>>

\* TransmitMatch with no error for a line that does not match.
TransmitMatch_silent(respMatch) ==
    IF Len(respMatch) # 2 THEN [n |-> 0, err |-> "nil"]
    ELSE [n |-> Atoi(respMatch[2]).n, err |-> "nil"]

\* What Transmit makes of the reply line: the count sent, or an error.
TransmitAtoi(n) == IF n.err THEN [n |-> 0, err |-> "atoi"] ELSE [n |-> n.n, err |-> "nil"]

TransmitMatch(respMatch) ==
    IF Len(respMatch) # 2 THEN [n |-> 0, err |-> "unexpected response"]
    ELSE TransmitAtoi(Atoi(respMatch[2]))

TransmitReply(respMsg) == TransmitMatch(respPatternCount(respMsg))

\* The stop functions handed to atCommand: TRUE while more lines are wanted.
stopFnOnce(line) == FALSE

stopFnInfo(line) == ~HasPrefix(line, OkPrefix)

(***************************************************************************)
(* FetchStatus: the decoding of the lines answering AT+INFO.               *)
(***************************************************************************)
maxModemMode == 4

ZeroStatus ==
    [Firmware |-> <<>>, Features |-> <<>>, Mode |-> 0, Mtu |-> 0, Frequency |-> <<>>,
     Bfb |-> 0, RxBad |-> 0, RxGood |-> 0, TxGood |-> 0]

StatusMarker == <<"+", "S", "T", "A", "T", "U", "S", ":">>

KeyFirmware == <<"f", "i", "r", "m", "w", "a", "r", "e">>
KeyFeatures == <<"f", "e", "a", "t", "u", "r", "e", "s">>
KeyModemConfig == <<"m", "o", "d", "e", "m", " ", "c", "o", "n", "f", "i", "g">>
KeyFrequency == <<"f", "r", "e", "q", "u", "e", "n", "c", "y">>
KeyMaxPktSize == <<"m", "a", "x", " ", "p", "k", "t", " ", "s", "i", "z", "e">>
KeyBfb == <<"B", "F", "B">>
KeyRxBad == <<"r", "x", " ", "b", "a", "d">>
KeyRxGood == <<"r", "x", " ", "g", "o", "o", "d">>
KeyTxGood == <<"t", "x", " ", "g", "o", "o", "d">>
KeyRxListener == <<"r", "x", " ", "l", "i", "s", "t", "e", "n", "e", "r">>
KeyGps == <<"G", "P", "S">>

\* respMsgFilter: ^(\+STATUS:|\+OK|)\r?\n$
respMsgFilter(respMsg) ==
    EndsLine(respMsg) /\ StripLineEnd(respMsg) \in {StatusMarker, OkPrefix, <<>>}

\* strings.TrimSpace, for the white space a line read by ReadString can hold.
RECURSIVE TrimLeft(_)
TrimLeft(s) == IF s # <<>> /\ Head(s) \in {" ", "\t", "\r", "\n"} THEN TrimLeft(Tail(s)) ELSE s

RECURSIVE TrimRight(_)
TrimRight(s) ==
    IF s # <<>> /\ s[Len(s)] \in {" ", "\t", "\r", "\n"} THEN TrimRight(DropSuffix(s, 1)) ELSE s

TrimSpace(s) == TrimRight(TrimLeft(s))

\* splitRegexp: ^(.+):[ ]+([^\r]+)\r?\n$ on a line holding its only "\n" at
\* the end. The key is greedy: it ends at the last ":" that a space and a value
\* without "\r" follow; the spaces are greedy too but leave the value one character.
splitColons(body) ==
    {i \in 2..(Len(body) - 2) :
        /\ body[i] = ":"
        /\ body[i + 1] = " "
        /\ \A j \in (i + 1)..Len(body) : body[j] # "\r"}

splitSpaces(rest) ==
    CHOOSE n \in 1..(Len(rest) - 1) :
        /\ \A j \in 1..n : rest[j] = " "
        /\ n = Len(rest) - 1 \/ rest[n + 1] # " "

splitValue(rest) == DropPrefix(rest, splitSpaces(rest))

splitAt(respMsg, body, k) == <<respMsg, SubSeq(body, 1, k - 1), splitValue(DropPrefix(body, k))>>

splitLast(colons) == CHOOSE i \in colons : \A j \in colons : j <= i

splitBody(respMsg, body, colons) ==
    IF colons = {} THEN <<>> ELSE splitAt(respMsg, body, splitLast(colons))

splitRegexpFields(respMsg) ==
    IF ~EndsLine(respMsg) THEN <<>>
    ELSE splitBody(respMsg, StripLineEnd(respMsg), splitColons(StripLineEnd(respMsg)))

\* cfgRegexp: ^(\d+) .*
cfgRegexpEnds(value) ==
    {n \in 1..(Len(value) - 1) : AllIn(SubSeq(value, 1, n), Digits) /\ value[n + 1] = " "}

cfgRegexpFields(value) ==
    IF cfgRegexpEnds(value) = {} THEN <<>>
    ELSE <<value, SubSeq(value, 1, CHOOSE n \in cfgRegexpEnds(value) : TRUE)>>

\* strconv.ParseFloat, for the decimal forms: a sign, digits, a fraction.
\* The value is kept as its text.
floatParts(parts) ==
    /\ Len(parts) \in {1, 2}
    /\ \A i \in 1..Len(parts) : AllIn(parts[i], Digits)
    /\ \E i \in 1..Len(parts) : parts[i] # <<>>

ParseFloat(value) ==
    [err |-> ~floatParts(Split(IF value # <<>> /\ value[1] \in {"-", "+"}
                               THEN Tail(value) ELSE value, ".")),
     f |-> value]

\* One pass of the loop over respMsgs: the status after the line, the error
\* it sets ("nil" when none) and whether FetchStatus returns at this line.
statusGo(status, err) == [status |-> status, err |-> err, return |-> FALSE]

statusFail(status, err) == [status |-> status, err |-> err, return |-> TRUE]

statusFeatures(status, parts) ==
    statusGo([status EXCEPT !.Features = [i \in 1..Len(parts) |-> TrimSpace(parts[i])]], "nil")

statusMode(status, mode) ==
    IF mode.err THEN statusFail(status, "atoi")
    ELSE IF mode.n < 0 \/ mode.n > maxModemMode THEN statusFail(status, "modem config range")
    ELSE statusGo([status EXCEPT !.Mode = mode.n], "nil")

statusModemConfig(status, cfgFields) ==
    IF Len(cfgFields) # 2 THEN statusFail(status, "modem config")
    ELSE statusMode(status, Atoi(cfgFields[2]))

statusFrequency(status, freq) ==
    IF freq.err THEN statusFail(status, "parsefloat")
    ELSE statusGo([status EXCEPT !.Frequency = freq.f], "nil")

\* The integer fields: a failing Atoi sets err but the field is assigned and
\* the loop goes on.
statusInt(status, key, v, e) ==
    IF key = KeyMaxPktSize THEN statusGo([status EXCEPT !.Mtu = v], e)
    ELSE IF key = KeyBfb THEN statusGo([status EXCEPT !.Bfb = v], e)
    ELSE IF key = KeyRxBad THEN statusGo([status EXCEPT !.RxBad = v], e)
    ELSE IF key = KeyRxGood THEN statusGo([status EXCEPT !.RxGood = v], e)
    ELSE statusGo([status EXCEPT !.TxGood = v], e)

statusAtoi(status, key, v) == statusInt(status, key, v.n, IF v.err THEN "atoi" ELSE "nil")

statusField(status, key, value) ==
    IF key = KeyFirmware THEN statusGo([status EXCEPT !.Firmware = value], "nil")
    ELSE IF key = KeyFeatures THEN statusFeatures(status, Split(value, " "))
    ELSE IF key = KeyModemConfig THEN statusModemConfig(status, cfgRegexpFields(value))
    ELSE IF key = KeyFrequency THEN statusFrequency(status, ParseFloat(value))
    ELSE IF key \in {KeyMaxPktSize, KeyBfb, KeyRxBad, KeyRxGood, KeyTxGood}
    THEN statusAtoi(status, key, Atoi(value))
    ELSE IF key \in {KeyRxListener, KeyGps} THEN statusGo(status, "nil")
    ELSE statusFail(status, "unknown info key")

statusFields(status, fields) ==
    IF Len(fields) # 3 THEN statusFail(status, "regexp")
    ELSE statusField(status, fields[2], TrimSpace(fields[3]))

statusLine(respMsg, status) ==
    IF respMsgFilter(respMsg) THEN statusGo(status, "nil")
    ELSE statusFields(status, splitRegexpFields(respMsg))

\* The loop over respMsgs: err is the error the lines so far have left, which
\* a later line replaces only by an error of its own.
RECURSIVE statusLines(_, _, _)
\* statusStep with the error of a line forgotten at the next line.
statusStep_forgetful(r, rest, err) ==
    IF r.return THEN [status |-> r.status, err |-> r.err]
    ELSE statusLines(rest, r.status, r.err)

statusStep(r, rest, err) ==
    IF r.return THEN [status |-> r.status, err |-> r.err]
    ELSE statusLines(rest, r.status, IF r.err # "nil" THEN r.err ELSE err)

statusLines(respMsgs, status, err) ==
    IF respMsgs = <<>> THEN [status |-> status, err |-> err]
    ELSE statusStep(statusLine(Head(respMsgs), status), Tail(respMsgs), err)

\* The deferred function of FetchStatus: an error zeroes the status.
statusDeferred(r) == IF r.err # "nil" THEN [status |-> ZeroStatus, err |-> r.err] ELSE r

\* What FetchStatus makes of the lines of a completed AT+INFO transaction.
FetchStatusReply(respMsgs) == statusDeferred(statusLines(respMsgs, ZeroStatus, "nil"))

(***************************************************************************)
(* The state.                                                              *)
(***************************************************************************)
\* The goroutines calling the public operations; a caller's Stream, the one
\* its NewStream made, carries the caller's name.
Callers == {"a", "b"}

Worker == "worker"

VARIABLES
    ctxDone,         \* modem.ctx is done
    devCloser,       \* modem.devCloser: whether it is nil, and the Close calls it got
    devLeft,         \* modem.devReader: the lines the device has still to send
    devWritten,      \* modem.devWriter: the writes it received, in order
    devSeen,         \* the device: the writes it has answered or begun to answer
    devAnswer,       \* the device: the lines of its answer it has still to send
    msgQueue,        \* modem.msgQueue, the buffered channel
    atCommandMutex,  \* modem.atCommandMutex: its holder, or "free"
    rxHandlers,      \* modem.rxHandlers
    mtuHandlers,     \* modem.mtuHandlers
    handlerMutex,    \* modem.handlerMutex: its readers and the writer that asked for it
    wpc,             \* where the worker goroutine stands
    wline,           \* worker: lineMsg
    wrx,             \* worker: rxMsg
    wrange,          \* worker: the slice its range loop walks
    wi,              \* worker: the position of the range loop
    call,            \* each caller's running operation and its locals
    ret,             \* what each caller's last operation returned
    ncalls,          \* the operations started, counted up to MaxCalls
    rxBuff,          \* each Stream's rxBuff
    mtu,             \* each Stream's mtu
    sctx,            \* each Stream: whether NewStream returned it (stream.ctx is set)
    lastRead,        \* history: the line ReadString returned last
    replies,         \* history: the lines ReadString returned that are no "+RX" lines
    taken,           \* history: the lines received from msgQueue
    rxLog,           \* history: per Stream, the lines whose event handleRx was given
    closeReturned,   \* history: a Close has returned
    delivered,       \* history: per Stream, the bytes handleRx was given
    consumed         \* history: per Stream, the bytes its Reads returned

modemVars == <<ctxDone, devCloser, msgQueue, atCommandMutex, rxHandlers, mtuHandlers,
               handlerMutex>>
devVars == <<devLeft, devWritten, devSeen, devAnswer>>
workerVars == <<wpc, wline, wrx, wrange, wi>>
callVars == <<call, ret, ncalls>>
streamVars == <<rxBuff, mtu, sctx>>
histVars == <<lastRead, replies, taken, rxLog, closeReturned, delivered, consumed>>
vars == <<modemVars, devVars, workerVars, callVars, streamVars, histVars>>

Line(k, v) == k \o <<":", " ">> \o v \o <<"\n">>

\* The lines the device sends: a well-formed event, an event whose hex field
\* has a digit left over, the replies the operations wait for.
RxLine == RxPrefix \o <<" ", "7", ",", "4", "1", ",", "-", "9", ",", "8", "\r", "\n">>
RxBadLine == RxPrefix \o <<" ", "7", ",", "4", "1", "4", ",", "-", "9", ",", "8", "\n">>
OkLine == OkPrefix \o <<"\r", "\n">>
SentLine == SentPrefix \o <<"1">> \o SentSuffix \o <<"\r", "\n">>
MtuLine == Line(KeyMaxPktSize, <<"2">>)
\* An event with a payload of two bytes.
Rx2Line == RxPrefix \o <<" ", "8", ",", "4", "2", "4", "3", ",", "-", "7", ",", "9", "\r", "\n">>
\* A reply that reports n bytes sent, a status line that gives n as the
\* greatest packet size, the reply to AT+FREQ, and a reply no operation expects.
SentOf(n) == SentPrefix \o Sprintd(n) \o SentSuffix \o <<"\r", "\n">>
MtuOf(n) == Line(KeyMaxPktSize, Sprintd(n))
FreqPrefix == <<"+", "F", "R", "E", "Q", ":", " ">>
FreqLine == FreqPrefix \o <<"8", "6", "8", ".", "1", "0", "\r", "\n">>
FailLine == <<"+", "F", "A", "I", "L", "\r", "\n">>

\* Status lines: an integer field that is no integer, a counter, a key that
\* FetchStatus does not know, a mode that is no known mode.
BadMtuLine == Line(KeyMaxPktSize, <<"x">>)
BfbLine == Line(KeyBfb, <<"7">>)
UnknownLine == Line(<<"f", "o", "o">>, <<"1">>)
BadConfigLine == Line(KeyModemConfig, <<"9", " ", "x">>)

\* Replies to AT+TX: a count with a zero before it and no "\r"; no ".", no
\* count, a count that is no number.
Sent07Line == SentPrefix \o <<"0", "7">> \o SentSuffix \o <<"\n">>
SentNoDotLine == DropSuffix(SentPrefix \o <<"1">> \o SentSuffix, 1) \o <<"\r", "\n">>
SentNoCountLine == SentPrefix \o SentSuffix \o <<"\r", "\n">>
SentBadCountLine == SentPrefix \o <<"x">> \o SentSuffix \o <<"\r", "\n">>

DeviceLines == {RxLine, RxBadLine, OkLine, SentLine}

\* The payloads handed to Transmit.
Payloads == {<<65>>}

\* The lengths of the slices handed to Stream.Read.
ReadSizes == {0, 1, 2}

NoRet == [err |-> "none", n |-> 0, status |-> ZeroStatus, msg |-> <<>>, rx |-> ZeroRxMessage]

\* An entry of the table of TestParseRxMessage: the line, whether parsing it
\* is to fail, and the record it is to return.
NoTest == [msg |-> <<>>, errors |-> FALSE, rx |-> ZeroRxMessage]

IdleCall ==
    [pc |-> "idle", op |-> "none", phase |-> "none", cmd |-> <<>>, lines |-> <<>>,
     arg |-> 0, val |-> 0, stream |-> "none", range |-> <<>>, i |-> 0,
     late |-> FALSE, orphan |-> FALSE, wrote |-> FALSE, hit |-> FALSE,
     waited |-> FALSE, p |-> <<>>, pos |-> 0, sum |-> 0, chunks |-> <<>>,
     loads |-> <<>>, counts |-> <<>>, told |-> <<>>, test |-> NoTest]

\* OpenModem: the Modem as it returns it, the worker started; the callers
\* have `calls` operations to start.
OpenModem(calls) ==
    /\ ctxDone = FALSE
    /\ devCloser \in {[nil |-> TRUE, closed |-> 0], [nil |-> FALSE, closed |-> 0]}
    /\ devLeft = MaxLines
    /\ devWritten = <<>>
    /\ devSeen = 0
    /\ devAnswer = <<>>
    /\ msgQueue = <<>>
    /\ atCommandMutex = "free"
    /\ rxHandlers = <<>>
    /\ mtuHandlers = <<>>
    /\ handlerMutex = [readers |-> {}, writer |-> "none"]
    /\ wpc = "select"
    /\ wline = <<>>
    /\ wrx = ZeroRxMessage
    /\ wrange = <<>>
    /\ wi = 0
    /\ call = [c \in Callers |-> IdleCall]
    /\ ret = [c \in Callers |-> NoRet]
    /\ ncalls = MaxCalls - calls
    /\ rxBuff = [c \in Callers |-> <<>>]
    /\ mtu = [c \in Callers |-> 0]
    /\ sctx = [c \in Callers |-> FALSE]
    /\ lastRead = <<>>
    /\ replies = <<>>
    /\ taken = <<>>
    /\ rxLog = [c \in Callers |-> <<>>]
    /\ closeReturned = FALSE
    /\ delivered = [c \in Callers |-> <<>>]
    /\ consumed = [c \in Callers |-> <<>>]

Init == OpenModem(MaxCalls)

(***************************************************************************)
(* The worker goroutine.                                                   *)
(***************************************************************************)
\* case <-modem.ctx.Done(): close the Closer, if any, and return.
worker_done ==
    /\ wpc = "select"
    /\ ctxDone
    /\ devCloser' = IF devCloser.nil THEN devCloser
                    ELSE [devCloser EXCEPT !.closed = @ + 1]
    /\ wpc' = "exited_ctx"
    /\ UNCHANGED <<ctxDone, msgQueue, atCommandMutex, rxHandlers, mtuHandlers, handlerMutex,
                   devVars, wline, wrx, wrange, wi, callVars, streamVars, histVars>>

\* default: go on to ReadString.
worker_default ==
    /\ wpc = "select"
    /\ ~ctxDone
    /\ wpc' = "read"
    /\ UNCHANGED <<modemVars, devVars, wline, wrx, wrange, wi, callVars, streamVars, histVars>>

\* Routed with the parse error not leading back to the loop: an event line
\* that does not parse falls through to the reply queue.
Routed_fallthrough(lineMsg) ==
    IF HasPrefix(lineMsg, RxPrefix) /\ ~parsePacketRx(lineMsg).err THEN "rlock" ELSE "send"

\* Where a line that ReadString returned goes.
Routed(lineMsg) ==
    IF HasPrefix(lineMsg, RxPrefix)
    THEN IF parsePacketRx(lineMsg).err THEN "select" ELSE "rlock"
    ELSE "send"

\* ReadString returns a line, one of those the device sends.
worker_line(deviceLines) ==
    /\ wpc = "read"
    /\ devLeft > 0
    /\ \E lineMsg \in deviceLines :
          /\ devLeft' = devLeft - 1
          /\ lastRead' = lineMsg
          /\ replies' = IF HasPrefix(lineMsg, RxPrefix) THEN replies
                        ELSE Append(replies, lineMsg)
          /\ wpc' = Routed(lineMsg)
          /\ wline' = IF Routed(lineMsg) = "select" THEN <<>> ELSE lineMsg
          /\ wrx' = IF Routed(lineMsg) = "rlock" THEN parsePacketRx(lineMsg).rx
                    ELSE ZeroRxMessage
    /\ UNCHANGED <<modemVars, devWritten, devSeen, devAnswer, wrange, wi, callVars,
                   streamVars, taken, rxLog, closeReturned, delivered, consumed>>

\* ReadString returns io.EOF, the read having timed out: continue.
worker_eof ==
    /\ wpc = "read"
    /\ wpc' = "select"
    /\ UNCHANGED <<modemVars, devVars, wline, wrx, wrange, wi, callVars, streamVars, histVars>>

\* ReadString returns another error: return.
worker_err ==
    /\ wpc = "read"
    /\ wpc' = "exited_err"
    /\ UNCHANGED <<modemVars, devVars, wline, wrx, wrange, wi, callVars, streamVars, histVars>>

\* sync.RWMutex: RLock waits while a writer holds or has asked for the lock.
RLock(p) ==
    /\ handlerMutex.writer = "none"
    /\ handlerMutex' = [handlerMutex EXCEPT !.readers = @ \cup {p}]

RUnlock(p) == handlerMutex' = [handlerMutex EXCEPT !.readers = @ \ {p}]

\* worker_rlock without the RLock: the range walked with no lock held.
worker_rlock_unlocked ==
    /\ wpc = "rlock"
    /\ wrange' = rxHandlers
    /\ wi' = 1
    /\ wpc' = "dispatch"
    /\ UNCHANGED <<modemVars, devVars, wline, wrx, callVars, streamVars, histVars>>

\* handlerMutex.RLock(), and the range expression evaluated.
worker_rlock ==
    /\ wpc = "rlock"
    /\ RLock(Worker)
    /\ wrange' = rxHandlers
    /\ wi' = 1
    /\ wpc' = "dispatch"
    /\ UNCHANGED <<ctxDone, devCloser, msgQueue, atCommandMutex, rxHandlers, mtuHandlers,
                   devVars, wline, wrx, callVars, streamVars, histVars>>

\* handleRx with the payload put before the bytes buffered.
handleRx_front(stream, rx) == rxBuff' = [rxBuff EXCEPT ![stream] = rx.Payload \o @]

\* handleRx handing the payload over only once the bytes before it were read.
handleRx_unread(stream, rx) ==
    /\ rxBuff[stream] = <<>>
    /\ rxBuff' = [rxBuff EXCEPT ![stream] = rx.Payload]

\* Stream.handleRx: the payload written to rxBuff under rxBuffMutex, which
\* makes it one step to every reader of rxBuff.
handleRx(stream, rx) == rxBuff' = [rxBuff EXCEPT ![stream] = @ \o rx.Payload]

\* for _, rxHandler := range modem.rxHandlers: rxHandler(rxMsg) for the next
\* handler of the range and, the range through, handlerMutex.RUnlock().
worker_range ==
    /\ wpc = "dispatch"
    /\ IF wi <= Len(wrange)
       THEN /\ handleRx(wrange[wi], wrx)
            /\ rxLog' = [rxLog EXCEPT ![wrange[wi]] = Append(@, MaxLines - devLeft)]
            /\ delivered' = [delivered EXCEPT ![wrange[wi]] = @ \o wrx.Payload]
            /\ wi' = wi + 1
            /\ UNCHANGED <<handlerMutex, wpc, wline, wrx, wrange>>
       ELSE /\ RUnlock(Worker)
            /\ wpc' = "select"
            /\ wline' = <<>>
            /\ wrx' = ZeroRxMessage
            /\ wrange' = <<>>
            /\ wi' = 0
            /\ UNCHANGED <<rxBuff, rxLog, delivered>>
    /\ UNCHANGED <<ctxDone, devCloser, msgQueue, atCommandMutex, rxHandlers, mtuHandlers,
                   devVars, callVars, mtu, sctx, lastRead, replies, taken, closeReturned,
                   consumed>>

\* worker_send with the line put at the head of the queue.
worker_send_front ==
    /\ wpc = "send"
    /\ Len(msgQueue) < QueueCap
    /\ msgQueue' = <<wline>> \o msgQueue
    /\ wline' = <<>>
    /\ wpc' = "select"
    /\ UNCHANGED <<ctxDone, devCloser, atCommandMutex, rxHandlers, mtuHandlers, handlerMutex,
                   devVars, wrx, wrange, wi, callVars, streamVars, histVars>>

\* modem.msgQueue <- lineMsg: waits while the channel is full.
worker_send ==
    /\ wpc = "send"
    /\ Len(msgQueue) < QueueCap
    /\ msgQueue' = Append(msgQueue, wline)
    /\ wline' = <<>>
    /\ wpc' = "select"
    /\ UNCHANGED <<ctxDone, devCloser, atCommandMutex, rxHandlers, mtuHandlers, handlerMutex,
                   devVars, wrx, wrange, wi, callVars, streamVars, histVars>>

worker(deviceLines) ==
    \/ worker_done
    \/ worker_default
    \/ worker_line(deviceLines)
    \/ worker_eof
    \/ worker_err
    \/ worker_rlock
    \/ worker_range
    \/ worker_send

(***************************************************************************)
(* The callers: each starts one public operation after another.            *)
(***************************************************************************)
CmdTx == <<"A", "T", "+", "T", "X", "=">>
CmdMode == <<"A", "T", "+", "M", "O", "D", "E", "=">>
CmdInfo == <<"A", "T", "+", "I", "N", "F", "O">>
CmdFreq == <<"A", "T", "+", "F", "R", "E", "Q", "=">>

\* A caller may start an operation.
CanCall(c) == call[c].pc = "idle" /\ ncalls < MaxCalls

\* The locals of an operation as it starts.
Started(c, op) ==
    [IdleCall EXCEPT !.op = op, !.late = closeReturned, !.orphan = (wpc = "exited_err")]

\* The operation of caller c returns r.
Return(c, r) ==
    /\ call' = [call EXCEPT ![c].pc = "idle", ![c].lines = <<>>, ![c].range = <<>>,
                            ![c].i = 0, ![c].cmd = <<>>]
    /\ ret' = [ret EXCEPT ![c] = r]

Failed(err) == [NoRet EXCEPT !.err = err]

\* Transmit(p), for p one of the given payloads:
\* atCommandOnce("AT+TX=" + hex.EncodeToString(p)).
Transmit_of(c, payloads) ==
    /\ CanCall(c)
    /\ \E p \in payloads :
          call' = [call EXCEPT ![c] = [Started(c, "Transmit") EXCEPT
                      !.pc = "at_lock", !.phase = "tx", !.p = p,
                      !.cmd = CmdTx \o HexEncode(p)]]
    /\ ret' = [ret EXCEPT ![c] = NoRet]
    /\ ncalls' = ncalls + 1
    /\ UNCHANGED <<modemVars, devVars, workerVars, streamVars, histVars>>

Transmit_call(c) == Transmit_of(c, Payloads)

\* FetchStatus(): atCommand("AT+INFO", lines until one begins with "+OK").
FetchStatus_call(c) ==
    /\ CanCall(c)
    /\ call' = [call EXCEPT ![c] = [Started(c, "FetchStatus") EXCEPT
                   !.pc = "at_lock", !.phase = "info", !.cmd = CmdInfo]]
    /\ ret' = [ret EXCEPT ![c] = NoRet]
    /\ ncalls' = ncalls + 1
    /\ UNCHANGED <<modemVars, devVars, workerVars, streamVars, histVars>>

\* The modes handed to Mode: a known one, one past maxModemMode and one below 0.
Modes == {1, maxModemMode + 1, 0 - 1}

\* Mode_call without the range check.
Mode_call_unchecked(c) ==
    /\ CanCall(c)
    /\ \E mode \in Modes :
          call' = [call EXCEPT ![c] = [Started(c, "Mode") EXCEPT
                      !.pc = "at_lock", !.phase = "mode", !.arg = mode,
                      !.cmd = CmdMode \o Sprintd(mode)]]
    /\ ret' = [ret EXCEPT ![c] = NoRet]
    /\ ncalls' = ncalls + 1
    /\ UNCHANGED <<modemVars, devVars, workerVars, streamVars, histVars>>

\* Mode(mode): the range check, then atCommandOnce("AT+MODE=<mode>").
Mode_call(c) ==
    /\ CanCall(c)
    /\ \E mode \in Modes :
          IF mode < 0 \/ mode > maxModemMode
          THEN /\ call' = [call EXCEPT ![c] = [Started(c, "Mode") EXCEPT !.arg = mode]]
               /\ ret' = [ret EXCEPT ![c] = Failed("modem mode")]
          ELSE /\ call' = [call EXCEPT ![c] = [Started(c, "Mode") EXCEPT
                              !.pc = "at_lock", !.phase = "mode", !.arg = mode,
                              !.cmd = CmdMode \o Sprintd(mode)]]
               /\ ret' = [ret EXCEPT ![c] = NoRet]
    /\ ncalls' = ncalls + 1
    /\ UNCHANGED <<modemVars, devVars, workerVars, streamVars, histVars>>

\* The frequencies handed to Frequency, in hundredths of a MHz.
Frequencies == {86810}

\* fmt.Sprintf("%.2f", frequency) of a frequency of so many hundredths.
Sprintf2(hundredths) ==
    Sprintd(hundredths \div 100) \o <<".">> \o Sprintd((hundredths % 100) \div 10)
       \o Sprintd(hundredths % 10)

\* Frequency(frequency): atCommandOnce("AT+FREQ=<frequency>").
Frequency_call(c) ==
    /\ CanCall(c)
    /\ \E frequency \in Frequencies :
          call' = [call EXCEPT ![c] = [Started(c, "Frequency") EXCEPT
                      !.pc = "at_lock", !.phase = "freq", !.arg = frequency,
                      !.cmd = CmdFreq \o Sprintf2(frequency)]]
    /\ ret' = [ret EXCEPT ![c] = NoRet]
    /\ ncalls' = ncalls + 1
    /\ UNCHANGED <<modemVars, devVars, workerVars, streamVars, histVars>>

\* atCommand_lock not waiting for the mutex to be free.
atCommand_lock_unguarded(c) ==
    /\ call[c].pc = "at_lock"
    /\ atCommandMutex' = c
    /\ call' = [call EXCEPT ![c].pc = "at_write"]
    /\ UNCHANGED <<ctxDone, devCloser, msgQueue, rxHandlers, mtuHandlers, handlerMutex,
                   devVars, workerVars, ret, ncalls, streamVars, histVars>>

\* atCommand: atCommandMutex.Lock().
atCommand_lock(c) ==
    /\ call[c].pc = "at_lock"
    /\ atCommandMutex = "free"
    /\ atCommandMutex' = c
    /\ call' = [call EXCEPT ![c].pc = "at_write"]
    /\ UNCHANGED <<ctxDone, devCloser, msgQueue, rxHandlers, mtuHandlers, handlerMutex,
                   devVars, workerVars, ret, ncalls, streamVars, histVars>>

\* atCommand: devWriter.Write(cmd + "\n") succeeds.
atCommand_write(c) ==
    /\ call[c].pc = "at_write"
    /\ devWritten' = Append(devWritten, call[c].cmd \o <<"\n">>)
    /\ call' = [call EXCEPT ![c].pc = "at_wait", ![c].wrote = TRUE]
    /\ UNCHANGED <<modemVars, devLeft, devSeen, devAnswer, workerVars, ret, ncalls,
                   streamVars, histVars>>

\* stopFn of a caller whose every transaction wants one line.
stopFn_once(c, line) == stopFnOnce(line)

\* The stop function of the transaction a caller runs.
stopFn(c, line) == IF call[c].phase \in {"info", "refresh"} THEN stopFnInfo(line)
                   ELSE stopFnOnce(line)

\* refreshMtu starts its FetchStatus.
ToRefresh(c) ==
    /\ call' = [call EXCEPT ![c].pc = "at_lock", ![c].phase = "refresh", ![c].cmd = CmdInfo,
                            ![c].lines = <<>>]
    /\ UNCHANGED ret

\* Transmit returns what it made of the reply line.
Transmit_return(r) == [NoRet EXCEPT !.n = r.n, !.err = r.err]

\* FetchStatus returns the status it decoded.
FetchStatus_return(r) == [NoRet EXCEPT !.status = r.status, !.err = r.err]

\* refreshMtu_status going on to the handlers whatever FetchStatus returned.
refreshMtu_status_heedless(c, r) ==
    /\ call' = [call EXCEPT ![c].pc = "mtu_rlock", ![c].lines = <<>>, ![c].cmd = <<>>,
                            ![c].val = r.status.Mtu]
    /\ UNCHANGED ret

\* refreshMtu, its FetchStatus returned: the error, or on to the handlers.
refreshMtu_status(c, r) ==
    IF r.err # "nil" THEN Return(c, Failed(r.err))
    ELSE /\ call' = [call EXCEPT ![c].pc = "mtu_rlock", ![c].lines = <<>>, ![c].cmd = <<>>,
                                 ![c].val = r.status.Mtu]
         /\ UNCHANGED ret

\* Configured taking any reply for the expected one.
Configured_lenient(c, respMsg, prefix) == ToRefresh(c)

\* Mode and Frequency, the reply read: an error that names the reply unless
\* it begins as expected, else refreshMtu.
Configured(c, respMsg, prefix) ==
    IF ~HasPrefix(respMsg, prefix)
    THEN Return(c, [Failed("unexpected response") EXCEPT !.msg = respMsg])
    ELSE ToRefresh(c)

\* Write_next going on with the next chunk whatever Transmit returned.
Write_next_heedless(c, tx) ==
    /\ call' = [call EXCEPT ![c].pc = "wr_loop", ![c].lines = <<>>, ![c].cmd = <<>>,
                            ![c].sum = @ + tx.n, ![c].pos = @ + call[c].val,
                            ![c].counts = Append(@, tx.n)]
    /\ UNCHANGED ret

\* Write_next with pos advanced by the mtu loaded anew, not by the one the
\* chunk was cut with.
Write_next_reload(c, tx) ==
    IF tx.err # "nil"
    THEN Return(c, [NoRet EXCEPT !.n = call[c].sum + tx.n, !.err = tx.err])
    ELSE /\ call' = [call EXCEPT ![c].pc = "wr_loop", ![c].lines = <<>>, ![c].cmd = <<>>,
                                 ![c].sum = @ + tx.n, ![c].pos = @ + mtu[call[c].stream],
                                 ![c].counts = Append(@, tx.n)]
         /\ UNCHANGED ret

\* Stream.Write, its Transmit returned: n += tx, then the error returned or
\* pos += mtu and on with the loop.
Write_next(c, tx) ==
    IF tx.err # "nil"
    THEN Return(c, [NoRet EXCEPT !.n = call[c].sum + tx.n, !.err = tx.err])
    ELSE /\ call' = [call EXCEPT ![c].pc = "wr_loop", ![c].lines = <<>>, ![c].cmd = <<>>,
                                 ![c].sum = @ + tx.n, ![c].pos = @ + call[c].val,
                                 ![c].counts = Append(@, tx.n)]
         /\ UNCHANGED ret

\* atCommand returned an error to the operation that called it: Transmit
\* returns 0 and the error, to Stream.Write if that called it; the others
\* return the error.
atCommand_failed(c, err) ==
    IF call[c].phase = "wtx" THEN Write_next(c, [n |-> 0, err |-> err])
    ELSE Return(c, Failed(err))

\* atCommand returns lines and err (the deferred Unlock runs), and the
\* operation that called it goes on with them.
atCommand_return(c, lines, err) ==
    /\ atCommandMutex' = "free"
    /\ IF err # "nil" THEN atCommand_failed(c, err)
       ELSE CASE call[c].phase = "tx" -> Return(c, Transmit_return(TransmitReply(lines[1])))
              [] call[c].phase = "wtx" -> Write_next(c, TransmitReply(lines[1]))
              [] call[c].phase = "info" ->
                   Return(c, FetchStatus_return(FetchStatusReply(lines)))
              [] call[c].phase = "mode" -> Configured(c, lines[1], OkPrefix)
              [] call[c].phase = "freq" -> Configured(c, lines[1], FreqPrefix)
              [] call[c].phase = "refresh" -> refreshMtu_status(c, FetchStatusReply(lines))

\* atCommand_write_err returning with atCommandMutex still locked.
atCommand_write_err_held(c) ==
    /\ call[c].pc = "at_write"
    /\ atCommand_failed(c, "write")
    /\ UNCHANGED <<ctxDone, devCloser, msgQueue, atCommandMutex, rxHandlers, mtuHandlers,
                   handlerMutex, devVars, workerVars, ncalls, streamVars, histVars>>

\* atCommand: devWriter.Write fails.
atCommand_write_err(c) ==
    /\ call[c].pc = "at_write"
    /\ atCommand_return(c, <<>>, "write")
    /\ UNCHANGED <<ctxDone, devCloser, msgQueue, rxHandlers, mtuHandlers, handlerMutex,
                   devVars, workerVars, ncalls, streamVars, histVars>>

\* atCommand_done of a select that has no case for the context: it never happens.
atCommand_done_absent(c) ==
    /\ call[c].pc = "at_wait"
    /\ FALSE
    /\ UNCHANGED vars

\* atCommand: case <-modem.ctx.Done().
atCommand_done(c) ==
    /\ call[c].pc = "at_wait"
    /\ ctxDone
    /\ atCommand_return(c, <<>>, "EOF")
    /\ UNCHANGED <<ctxDone, devCloser, msgQueue, rxHandlers, mtuHandlers, handlerMutex,
                   devVars, workerVars, ncalls, streamVars, histVars>>

\* atCommand: case line := <-modem.msgQueue.
atCommand_line(c) ==
    /\ call[c].pc = "at_wait"
    /\ msgQueue # <<>>
    /\ LET line == Head(msgQueue)
           lines == Append(call[c].lines, line)
       IN  /\ msgQueue' = Tail(msgQueue)
           /\ taken' = Append(taken, line)
           /\ IF stopFn(c, line)
              THEN /\ call' = [call EXCEPT ![c].lines = lines]
                   /\ UNCHANGED <<atCommandMutex, ret>>
              ELSE atCommand_return(c, lines, "nil")
    /\ UNCHANGED <<ctxDone, devCloser, rxHandlers, mtuHandlers, handlerMutex,
                   devVars, workerVars, ncalls, streamVars, lastRead, replies, rxLog,
                   closeReturned, delivered, consumed>>

atCommand(c) ==
    \/ atCommand_lock(c)
    \/ atCommand_write(c)
    \/ atCommand_write_err(c)
    \/ atCommand_done(c)
    \/ atCommand_line(c)

\* The operation that ends with refreshMtu returns nil.
refreshed(c) ==
    /\ Return(c, Failed("nil"))
    /\ sctx' = IF call[c].op = "NewStream" THEN [sctx EXCEPT ![c] = TRUE] ELSE sctx

\* refreshMtu_rlock with the range begun at the second handler.
refreshMtu_rlock_second(c) ==
    /\ call[c].pc = "mtu_rlock"
    /\ RLock(c)
    /\ call' = [call EXCEPT ![c].pc = "mtu_dispatch", ![c].range = mtuHandlers, ![c].i = 2]
    /\ UNCHANGED <<ctxDone, devCloser, msgQueue, atCommandMutex, rxHandlers, mtuHandlers,
                   devVars, workerVars, ret, ncalls, streamVars, histVars>>

\* refreshMtu: handlerMutex.RLock(), and the range expression evaluated.
refreshMtu_rlock(c) ==
    /\ call[c].pc = "mtu_rlock"
    /\ RLock(c)
    /\ call' = [call EXCEPT ![c].pc = "mtu_dispatch", ![c].range = mtuHandlers, ![c].i = 1]
    /\ UNCHANGED <<ctxDone, devCloser, msgQueue, atCommandMutex, rxHandlers, mtuHandlers,
                   devVars, workerVars, ret, ncalls, streamVars, histVars>>

\* Stream.handleMtu: atomic.StoreInt32(&stream.mtu, int32(mtu)).
handleMtu(stream, v) == mtu' = [mtu EXCEPT ![stream] = v]

\* refreshMtu: for _, mtuHandler := range modem.mtuHandlers: mtuHandler(status.Mtu)
\* for the next handler of the range and, the range through,
\* handlerMutex.RUnlock() and return nil.
refreshMtu_range(c) ==
    /\ call[c].pc = "mtu_dispatch"
    /\ IF call[c].i <= Len(call[c].range)
       THEN /\ handleMtu(call[c].range[call[c].i], call[c].val)
            /\ call' = [call EXCEPT ![c].i = @ + 1,
                                    ![c].told = Append(@, call[c].range[call[c].i])]
            /\ UNCHANGED <<handlerMutex, ret, sctx>>
       ELSE /\ RUnlock(c)
            /\ refreshed(c)
            /\ UNCHANGED mtu
    /\ UNCHANGED <<ctxDone, devCloser, msgQueue, atCommandMutex, rxHandlers, mtuHandlers,
                   devVars, workerVars, ncalls, rxBuff, histVars>>

refreshMtu(c) ==
    \/ refreshMtu_rlock(c)
    \/ refreshMtu_range(c)

\* sync.RWMutex: Lock asks for the lock, which keeps new readers out, ...
LockAsk(p) ==
    /\ handlerMutex.writer = "none"
    /\ handlerMutex' = [handlerMutex EXCEPT !.writer = p]

\* ... and has it once the readers are gone; Unlock gives it back.
LockHeld(p) == handlerMutex.writer = p /\ handlerMutex.readers = {}

Unlock == handlerMutex' = [handlerMutex EXCEPT !.writer = "none"]

\* History: the transactions that wait for a line as the context is cancelled.
Cancelled(calls) ==
    [d \in Callers |-> [calls[d] EXCEPT !.hit = @ \/ (~ctxDone /\ calls[d].pc = "at_wait")]]

\* Close_call closing the Closer itself as well.
Close_call_closing(c) ==
    /\ CanCall(c)
    /\ ctxDone' = TRUE
    /\ devCloser' = IF devCloser.nil THEN devCloser
                    ELSE [devCloser EXCEPT !.closed = @ + 1]
    /\ call' = Cancelled([call EXCEPT ![c] = [Started(c, "Close") EXCEPT !.pc = "close_lock"]])
    /\ ret' = [ret EXCEPT ![c] = NoRet]
    /\ ncalls' = ncalls + 1
    /\ UNCHANGED <<msgQueue, atCommandMutex, rxHandlers, mtuHandlers, handlerMutex,
                   devVars, workerVars, streamVars, histVars>>

\* Close: modem.ctxCancel().
Close_call(c) ==
    /\ CanCall(c)
    /\ ctxDone' = TRUE
    /\ call' = Cancelled([call EXCEPT ![c] = [Started(c, "Close") EXCEPT !.pc = "close_lock"]])
    /\ ret' = [ret EXCEPT ![c] = NoRet]
    /\ ncalls' = ncalls + 1
    /\ UNCHANGED <<devCloser, msgQueue, atCommandMutex, rxHandlers, mtuHandlers, handlerMutex,
                   devVars, workerVars, streamVars, histVars>>

\* Close: handlerMutex.Lock() is called.
Close_lock(c) ==
    /\ call[c].pc = "close_lock"
    /\ LockAsk(c)
    /\ call' = [call EXCEPT ![c].pc = "close_clear"]
    /\ UNCHANGED <<ctxDone, devCloser, msgQueue, atCommandMutex, rxHandlers, mtuHandlers,
                   devVars, workerVars, ret, ncalls, streamVars, histVars>>

\* Close_clear not waiting for the readers of handlerMutex to be gone.
Close_clear_unheld(c) ==
    /\ call[c].pc = "close_clear"
    /\ handlerMutex.writer = c
    /\ rxHandlers' = <<>>
    /\ mtuHandlers' = <<>>
    /\ Unlock
    /\ Return(c, Failed("nil"))
    /\ closeReturned' = TRUE
    /\ UNCHANGED <<ctxDone, devCloser, msgQueue, atCommandMutex, devVars, workerVars, ncalls,
                   streamVars, lastRead, replies, taken, rxLog, delivered, consumed>>

\* Close: under the lock both handler slices are set to nil; Unlock, return nil.
Close_clear(c) ==
    /\ call[c].pc = "close_clear"
    /\ LockHeld(c)
    /\ rxHandlers' = <<>>
    /\ mtuHandlers' = <<>>
    /\ Unlock
    /\ Return(c, Failed("nil"))
    /\ closeReturned' = TRUE
    /\ UNCHANGED <<ctxDone, devCloser, msgQueue, atCommandMutex, devVars, workerVars, ncalls,
                   streamVars, lastRead, replies, taken, rxLog, delivered, consumed>>

Close(c) ==
    \/ Close_call(c)
    \/ Close_lock(c)
    \/ Close_clear(c)

\* The context handed to OpenModem is cancelled, which cancels modem.ctx.
ParentCancel ==
    /\ ~ctxDone
    /\ ctxDone' = TRUE
    /\ call' = Cancelled(call)
    /\ UNCHANGED <<devCloser, msgQueue, atCommandMutex, rxHandlers, mtuHandlers, handlerMutex,
                   devVars, workerVars, ret, ncalls, streamVars, histVars>>

\* NewStream: a Stream is made and RegisterHandlers(s.handleRx, s.handleMtu)
\* called; handlerMutex.Lock() is called.
NewStream_call(c) ==
    /\ CanCall(c)
    /\ ~sctx[c]
    /\ c \notin {rxHandlers[i] : i \in 1..Len(rxHandlers)}
    /\ LockAsk(c)
    /\ call' = [call EXCEPT ![c] = [Started(c, "NewStream") EXCEPT !.pc = "reg_append"]]
    /\ ret' = [ret EXCEPT ![c] = NoRet]
    /\ ncalls' = ncalls + 1
    /\ UNCHANGED <<ctxDone, devCloser, msgQueue, atCommandMutex, rxHandlers, mtuHandlers,
                   devVars, workerVars, streamVars, histVars>>

\* RegisterHandlers: under the lock both handlers are appended; Unlock, and
\* refreshMtu is called.
RegisterHandlers_append(c) ==
    /\ call[c].pc = "reg_append"
    /\ LockHeld(c)
    /\ rxHandlers' = Append(rxHandlers, c)
    /\ mtuHandlers' = Append(mtuHandlers, c)
    /\ Unlock
    /\ ToRefresh(c)
    /\ UNCHANGED <<ctxDone, devCloser, msgQueue, atCommandMutex, devVars, workerVars, ncalls,
                   streamVars, histVars>>

NewStream(c) ==
    \/ NewStream_call(c)
    \/ RegisterHandlers_append(c)

\* The smaller of two numbers.
Min(m, n) == IF m < n THEN m ELSE n

\* Stream.Read(p), on a Stream that NewStream returned.
Read_call(c) ==
    /\ CanCall(c)
    /\ \E stream \in Callers, size \in ReadSizes :
          /\ sctx[stream]
          /\ call' = [call EXCEPT ![c] = [Started(c, "Read") EXCEPT
                         !.pc = "rd_select", !.stream = stream, !.arg = size]]
    /\ ret' = [ret EXCEPT ![c] = NoRet]
    /\ ncalls' = ncalls + 1
    /\ UNCHANGED <<modemVars, devVars, workerVars, streamVars, histVars>>

\* Read_select of a select that has no case for the context.
Read_select_noctx(c) ==
    /\ call[c].pc = "rd_select"
    /\ call' = [call EXCEPT ![c].pc = "rd_buffer"]
    /\ UNCHANGED <<modemVars, devVars, workerVars, ret, ncalls, streamVars, histVars>>

\* Read: case <-stream.ctx.Done() returns 0 and io.EOF; default goes on.
Read_select(c) ==
    /\ call[c].pc = "rd_select"
    /\ IF ctxDone THEN Return(c, Failed("EOF"))
       ELSE call' = [call EXCEPT ![c].pc = "rd_buffer"] /\ UNCHANGED ret
    /\ UNCHANGED <<modemVars, devVars, workerVars, ncalls, streamVars, histVars>>

\* Read: under rxBuffMutex, rxBuff.Read(p) when rxBuff holds bytes; else the
\* mutex is given back and, after the sleep, the loop goes round.
Read_buffer(c) ==
    /\ call[c].pc = "rd_buffer"
    /\ LET stream == call[c].stream
           n == Min(call[c].arg, Len(rxBuff[stream]))
       IN  IF Len(rxBuff[stream]) > 0
           THEN /\ rxBuff' = [rxBuff EXCEPT ![stream] = DropPrefix(@, n)]
                /\ consumed' = [consumed EXCEPT ![stream] = @ \o SubSeq(rxBuff[stream], 1, n)]
                /\ Return(c, [NoRet EXCEPT !.err = "nil", !.n = n])
           ELSE /\ call' = [call EXCEPT ![c].pc = "rd_select", ![c].waited = TRUE]
                /\ UNCHANGED <<rxBuff, ret, consumed>>
    /\ UNCHANGED <<modemVars, devVars, workerVars, ncalls, mtu, sctx, lastRead, replies,
                   taken, rxLog, closeReturned, delivered>>

Read(c) ==
    \/ Read_call(c)
    \/ Read_select(c)
    \/ Read_buffer(c)

\* The byte sequences handed to Stream.Write.
Inputs == {<<>>, <<65>>, <<65, 66>>, <<65, 66, 67>>}

\* Stream.Write(p), on a Stream that NewStream returned.
Write_call(c) ==
    /\ CanCall(c)
    /\ \E stream \in Callers, p \in Inputs :
          /\ sctx[stream]
          /\ call' = [call EXCEPT ![c] = [Started(c, "Write") EXCEPT
                         !.pc = "wr_loop", !.stream = stream, !.p = p]]
    /\ ret' = [ret EXCEPT ![c] = NoRet]
    /\ ncalls' = ncalls + 1
    /\ UNCHANGED <<modemVars, devVars, workerVars, streamVars, histVars>>

\* Chunk with the bound one byte too far.
Chunk_over(p, pos, m) == SubSeq(p, pos + 1, Min(pos + m + 1, Len(p)))

\* Write: p[pos:bound], for the mtu loaded and bound the smaller of pos + mtu
\* and len(p).
Chunk(p, pos, m) == SubSeq(p, pos + 1, Min(pos + m, Len(p)))

\* Write: the loop condition; atomic.LoadInt32(&stream.mtu), and Transmit
\* is called with the chunk; the loop through, n and nil are returned.
Write_loop(c) ==
    /\ call[c].pc = "wr_loop"
    /\ LET m == mtu[call[c].stream]
       IN  IF call[c].pos < Len(call[c].p)
           THEN /\ call' = [call EXCEPT
                      ![c].pc = "at_lock", ![c].phase = "wtx", ![c].val = m,
                      ![c].cmd = CmdTx \o HexEncode(Chunk(call[c].p, call[c].pos, m)),
                      ![c].chunks = Append(@, Chunk(call[c].p, call[c].pos, m)),
                      ![c].loads = Append(@, m)]
                /\ UNCHANGED ret
           ELSE Return(c, [NoRet EXCEPT !.n = call[c].sum, !.err = "nil"])
    /\ UNCHANGED <<modemVars, devVars, workerVars, ncalls, streamVars, histVars>>

Write(c) ==
    \/ Write_call(c)
    \/ Write_loop(c)

(***************************************************************************)
(* parsePacketRx called on its own, as TestParseRxMessage calls it.        *)
(***************************************************************************)
\* An event line as the wire grammar has it.
RxForm(seq, hex, rssi, snr, end) ==
    RxPrefix \o <<" ">> \o seq \o <<",">> \o hex \o <<",">> \o rssi \o <<",">> \o snr \o end

Upper(c) ==
    CASE c = "a" -> "A" [] c = "b" -> "B" [] c = "c" -> "C" [] c = "d" -> "D"
      [] c = "e" -> "E" [] c = "f" -> "F" [] OTHER -> c

\* The ways of writing a string of hex digits, each letter in either case.
RECURSIVE Casings(_)
Casings(h) ==
    IF h = <<>> THEN {<<>>}
    ELSE {<<d>> \o rest : d \in {Head(h), Upper(Head(h))}, rest \in Casings(Tail(h))}

\* The ways of writing a signed decimal: the digits, after "-" when it is
\* negative, and with zeros before them.
SignedTexts(n) ==
    {Sprintd(n)} \cup (IF n < 0 THEN {<<"-", "0">> \o DecimalText(0 - n)}
                       ELSE {<<"0", "0">> \o DecimalText(n)})

RxSeqs == {<<"3">>, <<"1", "2">>}
RxPayloads == {<<65>>, <<0>>, <<255>>, <<172, 171>>, <<65, 65, 65>>}
RxRssis == {0 - 120, 0 - 15, 0, 23}
RxSnrs == {0 - 7, 8, 42}
LineEnds == {<<"\n">>, <<"\r", "\n">>}

\* The entries for the lines of the wire grammar, like those of the test:
\* the lines that carry a payload and two signed decimals, and the record.
GoodTestsOf(payload, r, s) ==
    {[msg |-> RxForm(seq, hex, rssi, snr, end), errors |-> FALSE,
      rx |-> [Payload |-> payload, Rssi |-> r, Snr |-> s]] :
        seq \in RxSeqs, hex \in Casings(HexEncode(payload)),
        rssi \in SignedTexts(r), snr \in SignedTexts(s), end \in LineEnds}

GoodTests ==
    UNION {GoodTestsOf(payload, r, s) : payload \in RxPayloads, r \in RxRssis, s \in RxSnrs}

\* Lines that are no events: the four of the test, then a hex field with a
\* digit left over, a sign after a digit, a sign alone, two signs, a "+"
\* sign, another prefix, no space after the prefix, no line end.
BadLines ==
    {RxForm(<<"3">>, <<"X", "Y", "Z">>, <<"2", "3">>, <<"4", "2">>, <<"\n">>),
     RxForm(<<"3">>, <<"1", "2", "3", "4">>, <<"F", "3">>, <<"4", "2">>, <<"\n">>),
     RxForm(<<"3">>, <<"1", "2", "3", "4">>, <<"2", "3">>, <<"F", "2">>, <<"\n">>),
     RxForm(<<>>, <<"1", "2", "3", "4">>, <<"2", "3">>, <<"3", "2">>, <<"\n">>),
     RxForm(<<"3">>, <<"4", "1", "4">>, <<"-", "1", "5">>, <<"8">>, <<"\n">>),
     RxForm(<<"3">>, <<"4", "1", "4", "1">>, <<"1", "-", "5">>, <<"8">>, <<"\n">>),
     RxForm(<<"3">>, <<"4", "1", "4", "1">>, <<"-", "1", "5">>, <<"-">>, <<"\r", "\n">>),
     RxForm(<<"3">>, <<"4", "1", "4", "1">>, <<"-", "-", "5">>, <<"8">>, <<"\n">>),
     RxForm(<<"3">>, <<"4", "1", "4", "1">>, <<"+", "5">>, <<"8">>, <<"\n">>),
     <<"+", "R", "Y">> \o DropPrefix(RxForm(<<"3">>, <<"4", "1">>, <<"5">>, <<"8">>, <<"\n">>), 3),
     RxPrefix \o DropPrefix(RxForm(<<"3">>, <<"4", "1">>, <<"5">>, <<"8">>, <<"\n">>), 4),
     RxForm(<<"3">>, <<"4", "1">>, <<"5">>, <<"8">>, <<>>)}

\* Their entries: parsing fails and returns RxMessage{}.
BadTests == {[msg |-> msg, errors |-> TRUE, rx |-> ZeroRxMessage] : msg \in BadLines}

\* parsePacketRx returns rx and err.
parsePacketRx_return(r) ==
    [NoRet EXCEPT !.rx = r.rx, !.err = IF r.err THEN "parse" ELSE "nil"]

\* parsePacketRx(test.msg), for an entry of the table.
parsePacketRx_call(c, tests) ==
    /\ CanCall(c)
    /\ \E test \in tests :
          /\ call' = [call EXCEPT ![c] = [Started(c, "parsePacketRx") EXCEPT !.test = test]]
          /\ ret' = [ret EXCEPT ![c] = parsePacketRx_return(parsePacketRx(test.msg))]
    /\ ncalls' = ncalls + 1
    /\ UNCHANGED <<modemVars, devVars, workerVars, streamVars, histVars>>

(***************************************************************************)
(* A device that answers the commands written to it.                       *)
(***************************************************************************)
\* The bytes an "AT+TX=" command written to the device carries.
TxBytes(cmd) == (Len(cmd) - Len(CmdTx) - 1) \div 2

\* The answers of the device: to AT+TX the count of the bytes sent, which
\* are all the bytes or none, or a failure; to AT+INFO the status up to
\* "+OK"; to AT+MODE "+OK" and to AT+FREQ "+FREQ: ", or a failure.
Answers(cmd) ==
    IF HasPrefix(cmd, CmdTx) THEN {<<SentOf(TxBytes(cmd))>>, <<SentOf(0)>>, <<FailLine>>}
    ELSE IF HasPrefix(cmd, CmdInfo)
    THEN {<<MtuOf(1), OkLine>>, <<MtuOf(2), OkLine>>, <<FailLine, OkLine>>}
    ELSE IF HasPrefix(cmd, CmdMode) THEN {<<OkLine>>, <<FailLine>>}
    ELSE {<<FreqLine>>, <<FailLine>>}

\* What the device can send next: the rest of the answer it is giving, or an
\* answer, made of the given lines, to the first command it has not answered.
Pending(lines) ==
    IF devAnswer # <<>> THEN {devAnswer}
    ELSE IF devSeen < Len(devWritten)
    THEN {answer \in Answers(devWritten[devSeen + 1]) : AllIn(answer, lines)}
    ELSE {}

\* ReadString returns the next line of the device's answers.
worker_answer(lines) ==
    /\ wpc = "read"
    /\ \E answer \in Pending(lines) :
          /\ devSeen' = IF devAnswer = <<>> THEN devSeen + 1 ELSE devSeen
          /\ devAnswer' = Tail(answer)
          /\ lastRead' = Head(answer)
          /\ replies' = IF HasPrefix(Head(answer), RxPrefix) THEN replies
                        ELSE Append(replies, Head(answer))
          /\ wpc' = Routed(Head(answer))
          /\ wline' = IF Routed(Head(answer)) = "select" THEN <<>> ELSE Head(answer)
          /\ wrx' = IF Routed(Head(answer)) = "rlock" THEN parsePacketRx(Head(answer)).rx
                    ELSE ZeroRxMessage
    /\ UNCHANGED <<modemVars, devLeft, devWritten, wrange, wi, callVars, streamVars, taken,
                   rxLog, closeReturned, delivered, consumed>>

\* ReadString returns io.EOF together with the part of a line it has read,
\* the read having timed out within the line, after one of the given
\* numbers of characters: continue, the part dropped with lineMsg; the rest
\* of the line is what the transport delivers next.
worker_eof_partial(deviceLines, cuts) ==
    /\ wpc = "read"
    /\ devLeft > 0
    /\ devAnswer = <<>>
    /\ \E lineMsg \in deviceLines : \E k \in cuts \cap 1..(Len(lineMsg) - 1) :
          /\ devLeft' = devLeft - 1
          /\ devAnswer' = <<DropPrefix(lineMsg, k)>>
    /\ wpc' = "select"
    /\ UNCHANGED <<modemVars, devWritten, devSeen, wline, wrx, wrange, wi, callVars,
                   streamVars, histVars>>

\* The event another modem reports for the packet an "AT+TX=" command
\* sends: the hex field is the command's.
RxEcho(cmd) ==
    RxForm(Sprintd(TxBytes(cmd)), SubSeq(cmd, Len(CmdTx) + 1, Len(cmd) - 1),
           <<"-", "7">>, <<"9">>, <<"\r", "\n">>)

\* ReadString returns the event that echoes the first command the device
\* has not answered; the device answers the command next.
worker_echo ==
    /\ wpc = "read"
    /\ devAnswer = <<>>
    /\ devSeen < Len(devWritten)
    /\ devSeen' = devSeen + 1
    /\ devAnswer' = <<SentOf(TxBytes(devWritten[devSeen + 1]))>>
    /\ lastRead' = RxEcho(devWritten[devSeen + 1])
    /\ wpc' = Routed(lastRead')
    /\ wline' = IF Routed(lastRead') = "select" THEN <<>> ELSE lastRead'
    /\ wrx' = IF Routed(lastRead') = "rlock" THEN parsePacketRx(lastRead').rx
              ELSE ZeroRxMessage
    /\ UNCHANGED <<modemVars, devLeft, devWritten, wrange, wi, callVars, streamVars, replies,
                   taken, rxLog, closeReturned, delivered, consumed>>

(***************************************************************************)
(* An rx handler that calls modem.Transmit with the payload it receives,   *)
(* registered with no mtu handler.  The handler runs in the worker         *)
(* goroutine, and so does the transaction of its Transmit.                 *)
(***************************************************************************)
Transmitter == "transmitter"

\* RegisterHandlers(rxHandler, nil): handlerMutex.Lock() is called.
RegisterHandlers_call(c) ==
    /\ CanCall(c)
    /\ LockAsk(c)
    /\ call' = [call EXCEPT ![c] = [Started(c, "RegisterHandlers") EXCEPT !.pc = "reg_rx"]]
    /\ ret' = [ret EXCEPT ![c] = NoRet]
    /\ ncalls' = ncalls + 1
    /\ UNCHANGED <<ctxDone, devCloser, msgQueue, atCommandMutex, rxHandlers, mtuHandlers,
                   devVars, workerVars, streamVars, histVars>>

\* RegisterHandlers: under the lock the rx handler is appended, the mtu handler
\* being nil; Unlock, and refreshMtu is called.
RegisterHandlers_rx(c) ==
    /\ call[c].pc = "reg_rx"
    /\ LockHeld(c)
    /\ rxHandlers' = Append(rxHandlers, Transmitter)
    /\ Unlock
    /\ ToRefresh(c)
    /\ UNCHANGED <<ctxDone, devCloser, msgQueue, atCommandMutex, mtuHandlers, devVars,
                   workerVars, ncalls, streamVars, histVars>>

\* rxHandler(rxMsg) for the next handler of the range: the handler calls
\* Transmit(rxMsg.Payload), whose atCommand takes atCommandMutex.
worker_callback ==
    /\ wpc = "dispatch"
    /\ wi <= Len(wrange)
    /\ wrange[wi] = Transmitter
    /\ atCommandMutex = "free"
    /\ atCommandMutex' = Worker
    /\ wpc' = "cb_write"
    /\ UNCHANGED <<ctxDone, devCloser, msgQueue, rxHandlers, mtuHandlers, handlerMutex,
                   devVars, wline, wrx, wrange, wi, callVars, streamVars, histVars>>

\* The handler's atCommand: devWriter.Write("AT+TX=<hex>\n") succeeds.
callback_write ==
    /\ wpc = "cb_write"
    /\ devWritten' = Append(devWritten, CmdTx \o HexEncode(wrx.Payload) \o <<"\n">>)
    /\ wpc' = "cb_wait"
    /\ UNCHANGED <<modemVars, devLeft, devSeen, devAnswer, wline, wrx, wrange, wi, callVars,
                   streamVars, histVars>>

\* The handler's Transmit returns, and the handler with it: the mutex is
\* unlocked and the range goes on.
callback_return ==
    /\ atCommandMutex' = "free"
    /\ wi' = wi + 1
    /\ wpc' = "dispatch"
    /\ UNCHANGED <<ctxDone, devCloser, rxHandlers, mtuHandlers, handlerMutex, devVars,
                   wline, wrx, wrange, callVars, streamVars, lastRead, replies, rxLog,
                   closeReturned, delivered, consumed>>

\* callback_done giving up with the context not done.
callback_done_early ==
    /\ wpc = "cb_wait"
    /\ callback_return
    /\ UNCHANGED <<msgQueue, taken>>

\* The handler's atCommand: case <-modem.ctx.Done().
callback_done ==
    /\ wpc = "cb_wait"
    /\ ctxDone
    /\ callback_return
    /\ UNCHANGED <<msgQueue, taken>>

\* The handler's atCommand: case line := <-modem.msgQueue; atCommandOnce
\* stops at the first line.
callback_line ==
    /\ wpc = "cb_wait"
    /\ msgQueue # <<>>
    /\ msgQueue' = Tail(msgQueue)
    /\ taken' = Append(taken, Head(msgQueue))
    /\ callback_return

(***************************************************************************)
(* The specifications.                                                     *)
(***************************************************************************)
Next ==
    \/ worker(DeviceLines)
    \/ ParentCancel
    \/ \E c \in Callers :
          \/ Transmit_call(c)
          \/ FetchStatus_call(c)
          \/ atCommand(c)
          \/ Close(c)

Spec == Init /\ [][Next]_vars

NextStream ==
    \/ worker({RxLine, OkLine})
    \/ ParentCancel
    \/ \E c \in Callers :
          \/ NewStream(c)
          \/ atCommand(c)
          \/ refreshMtu(c)
          \/ Read(c)
          \/ Close(c)

SpecStream == Init /\ [][NextStream]_vars

NextAll ==
    \/ worker(DeviceLines)
    \/ ParentCancel
    \/ \E c \in Callers :
          \/ Transmit_call(c)
          \/ FetchStatus_call(c)
          \/ Mode_call(c)
          \/ atCommand(c)
          \/ refreshMtu(c)
          \/ Close(c)
          \/ NewStream(c)
          \/ Read(c)

SpecAll == Init /\ [][NextAll]_vars

\* Transactions on a device that sends events and "+SENT" lines, the goroutine
\* of each transaction running: it takes the steps it can take. Nothing makes
\* a caller start an operation, the parent cancel the context, the device
\* send a line or a read fail.
NextWait ==
    \/ worker({RxLine, SentLine})
    \/ ParentCancel
    \/ \E c \in Callers :
          \/ Transmit_call(c)
          \/ FetchStatus_call(c)
          \/ atCommand(c)
          \/ Close(c)

FairSpecWait == Init /\ [][NextWait]_vars /\ \A c \in Callers : WF_vars(atCommand(c))

\* Streams and their Reads, the goroutine of each Read running.
NextRead ==
    \/ worker({RxLine, OkLine})
    \/ ParentCancel
    \/ \E c \in Callers :
          \/ NewStream(c)
          \/ atCommand(c)
          \/ refreshMtu(c)
          \/ Read(c)

FairSpecRead ==
    Init /\ [][NextRead]_vars /\ \A c \in Callers : WF_vars(Read_select(c) \/ Read_buffer(c))

\* The lines of a device that answers AT+INFO and AT+TX.
WriteLines == {MtuOf(1), MtuOf(2), OkLine, FailLine} \cup {SentOf(n) : n \in 0..3}

\* Streams and their Writes on a device that answers: no line comes
\* unasked, and no read fails.
NextWrite ==
    \/ worker_done
    \/ worker_default
    \/ worker_answer(WriteLines)
    \/ worker_eof
    \/ worker_send
    \/ ParentCancel
    \/ \E c \in Callers :
          \/ NewStream(c)
          \/ atCommand(c)
          \/ refreshMtu(c)
          \/ Write(c)

SpecWrite == Init /\ [][NextWrite]_vars

\* The lines of a device that answers AT+INFO, and AT+TX with the bytes sent.
SentLines == {MtuOf(1), MtuOf(2), OkLine} \cup {SentOf(n) : n \in 1..2}

\* Streams and their Writes on a device that sends what it is asked to send,
\* a second Stream registering while the first is written to.
NextWriteMtu ==
    \/ worker_done
    \/ worker_default
    \/ worker_answer(SentLines)
    \/ worker_eof
    \/ worker_send
    \/ ParentCancel
    \/ \E c \in Callers :
          \/ NewStream(c)
          \/ atCommand(c)
          \/ refreshMtu(c)
          \/ Write(c)

SpecWriteMtu == OpenModem(MaxStreamCalls) /\ [][NextWriteMtu]_vars

\* Streams and their Reads on a device that answers AT+INFO and sends
\* events of two bytes, while the Modem is open: the context is not
\* cancelled, and no read or write of the transport fails.
NextReadOrder ==
    \/ worker_default
    \/ worker_answer({MtuOf(1), OkLine})
    \/ worker_line({Rx2Line})
    \/ worker_eof
    \/ worker_rlock
    \/ worker_range
    \/ worker_send
    \/ \E c \in Callers :
          \/ NewStream(c)
          \/ atCommand_lock(c)
          \/ atCommand_write(c)
          \/ atCommand_line(c)
          \/ refreshMtu(c)
          \/ Read(c)

SpecReadOrder == OpenModem(MaxStreamCalls) /\ [][NextReadOrder]_vars

\* Streams, their Writes and Close on a device that answers AT+INFO, and
\* AT+TX with the bytes sent.
NextClosed ==
    \/ worker_done
    \/ worker_default
    \/ worker_answer({MtuOf(1), OkLine, SentOf(1)})
    \/ worker_eof
    \/ worker_send
    \/ \E c \in Callers :
          \/ NewStream(c)
          \/ atCommand(c)
          \/ refreshMtu(c)
          \/ Write(c)
          \/ Close(c)

SpecClosed == OpenModem(MaxStreamCalls) /\ [][NextClosed]_vars

\* The lines of a device that answers AT+INFO, AT+MODE and AT+FREQ.
ConfigLines == {MtuOf(2), OkLine, FreqLine, FailLine}

\* Mode and Frequency on a device that answers, with Streams registered.
NextConfig ==
    \/ worker_done
    \/ worker_default
    \/ worker_answer(ConfigLines)
    \/ worker_eof
    \/ worker_send
    \/ \E c \in Callers :
          \/ NewStream(c)
          \/ Mode_call(c)
          \/ Frequency_call(c)
          \/ atCommand(c)
          \/ refreshMtu(c)
          \/ Close(c)

SpecConfig == OpenModem(MaxStreamCalls) /\ [][NextConfig]_vars

\* The lines of a device that sends status lines, well formed or not.
StatusLines == {MtuOf(2), BfbLine, BadMtuLine, UnknownLine, BadConfigLine, OkLine}

\* FetchStatus, and NewStream with its refresh, on such a device, while the
\* Modem is open and the transport works.
NextStatus ==
    \/ worker_default
    \/ worker_line(StatusLines)
    \/ worker_eof
    \/ worker_send
    \/ \E c \in Callers :
          \/ FetchStatus_call(c)
          \/ NewStream(c)
          \/ atCommand_lock(c)
          \/ atCommand_write(c)
          \/ atCommand_line(c)
          \/ refreshMtu(c)

SpecStatus == Init /\ [][NextStatus]_vars

\* The payloads echoed: none, every byte value alone, first and last of
\* two, and three bytes.
EchoPayloads ==
    {<<>>, <<1, 2, 3>>} \cup {<<b>> : b \in 0..255}
       \cup {<<b, 90>> : b \in 0..255} \cup {<<165, b>> : b \in 0..255}

\* Transmit on a device that echoes each packet as an event before it
\* answers the command.
NextEcho ==
    \/ worker_default
    \/ worker_echo
    \/ worker_answer({})
    \/ worker_eof
    \/ worker_rlock
    \/ worker_range
    \/ worker_send
    \/ \E c \in Callers :
          \/ Transmit_of(c, EchoPayloads)
          \/ atCommand_lock(c)
          \/ atCommand_write(c)
          \/ atCommand_line(c)

SpecEcho == OpenModem(1) /\ [][NextEcho]_vars

\* The payloads handed to Transmit: none, three bytes and five bytes.
TxPayloads == {<<>>, <<65, 66, 67>>, <<1, 2, 3, 4, 255>>}

\* The lines of a device that replies to AT+TX, as expected or not.
TxReplies ==
    {SentOf(3), Sent07Line, SentNoDotLine, SentNoCountLine, SentBadCountLine, FailLine}

\* Transmit on such a device, while the Modem is open and the transport works.
NextTransmit ==
    \/ worker_default
    \/ worker_line(TxReplies)
    \/ worker_eof
    \/ worker_send
    \/ \E c \in Callers :
          \/ Transmit_of(c, TxPayloads)
          \/ atCommand_lock(c)
          \/ atCommand_write(c)
          \/ atCommand_line(c)

SpecTransmit == Init /\ [][NextTransmit]_vars

\* The lines of a device that answers every command, as expected or not.
FrameLines == {MtuOf(2), OkLine, FreqLine, SentOf(1), FailLine}

\* Every operation of the Modem and of its Streams, on a device that
\* answers and sends events.
NextFrame ==
    \/ worker_done
    \/ worker_default
    \/ worker_answer(FrameLines)
    \/ worker_line({RxLine})
    \/ worker_eof
    \/ worker_rlock
    \/ worker_range
    \/ worker_send
    \/ \E c \in Callers :
          \/ NewStream(c)
          \/ Transmit_call(c)
          \/ FetchStatus_call(c)
          \/ Mode_call(c)
          \/ Frequency_call(c)
          \/ atCommand(c)
          \/ refreshMtu(c)
          \/ Read(c)
          \/ Write(c)
          \/ Close(c)

SpecFrame == Init /\ [][NextFrame]_vars

\* parsePacketRx on the lines of the wire grammar and on lines that are no
\* events, one call in a run.
NextParse == \E c \in Callers : parsePacketRx_call(c, GoodTests \cup BadTests)

SpecParse == OpenModem(1) /\ [][NextParse]_vars

\* The lines of a device that answers AT+INFO and AT+TX as expected.
UnreadLines == {MtuOf(2), OkLine, SentOf(1)}

\* Streams that nobody reads from, and Transmit, on a device that answers
\* and sends events; the context is not cancelled and no read or write of
\* the transport fails.
NextUnread ==
    \/ worker_default
    \/ worker_answer(UnreadLines)
    \/ worker_line({RxLine})
    \/ worker_eof
    \/ worker_rlock
    \/ worker_range
    \/ worker_send
    \/ \E c \in Callers :
          \/ NewStream(c)
          \/ Transmit_call(c)
          \/ atCommand_lock(c)
          \/ atCommand_write(c)
          \/ atCommand_line(c)
          \/ refreshMtu(c)

\* The goroutines run: the worker's steps and the steps of an operation
\* under way are taken when they can be; the answer the device has ready is
\* read in the end, however often a read times out before; and a caller
\* whose select finds a line in msgQueue does not wait there for ever.
FairSpecUnread ==
    /\ Init /\ [][NextUnread]_vars
    /\ WF_vars(worker_default \/ worker_rlock \/ worker_range \/ worker_send)
    /\ SF_vars(worker_answer(UnreadLines))
    /\ \A c \in Callers :
          /\ WF_vars(RegisterHandlers_append(c) \/ atCommand_lock(c) \/ atCommand_write(c)
                        \/ refreshMtu(c))
          /\ []<>~(call[c].pc = "at_wait" /\ msgQueue # <<>>)

\* The lines of a device whose status gives no greatest packet size, or 0
\* or 1, and that reports 0 bytes or 1 byte sent.
ZeroMtuLines == {OkLine, MtuOf(0), MtuOf(1), SentOf(0), SentOf(1)}

\* A Stream and a Write on it, while the Modem is open and no write of the
\* transport fails.
NextZeroMtu ==
    \/ worker_default
    \/ worker_line(ZeroMtuLines)
    \/ worker_eof
    \/ worker_send
    \/ \E c \in Callers :
          \/ NewStream(c)
          \/ atCommand_lock(c)
          \/ atCommand_write(c)
          \/ atCommand_line(c)
          \/ refreshMtu(c)
          \/ Write(c)

SpecZeroMtu == Init /\ [][NextZeroMtu]_vars

\* The events of the device, and where a read may time out within one:
\* after "+R" and after "+RX 7,".
PartialLines == {RxLine}

PartialCuts == {2, 6}

\* The worker on a transport whose reads may time out within a line, with
\* Streams registered; the device sends a line once the one before is through.
NextPartial ==
    \/ worker_default
    \/ (devAnswer = <<>> /\ worker_line(PartialLines))
    \/ worker_answer({MtuOf(1), OkLine})
    \/ worker_eof
    \/ worker_eof_partial(PartialLines, PartialCuts)
    \/ worker_rlock
    \/ worker_range
    \/ worker_send
    \/ \E c \in Callers :
          \/ NewStream(c)
          \/ atCommand_lock(c)
          \/ atCommand_write(c)
          \/ atCommand_line(c)
          \/ refreshMtu(c)

SpecPartial == Init /\ [][NextPartial]_vars

\* A handler that calls Transmit, registered by a caller; a device that
\* answers the commands and sends events and lines nobody asked for.
CallbackLines == {RxLine, OkLine}

NextCallback ==
    \/ worker_done
    \/ worker_default
    \/ (devAnswer = <<>> /\ worker_line(CallbackLines))
    \/ worker_answer({MtuOf(1), OkLine, SentOf(1)})
    \/ worker_eof
    \/ worker_rlock
    \/ (wi > Len(wrange) /\ worker_range)
    \/ worker_callback
    \/ callback_write
    \/ callback_done
    \/ callback_line
    \/ worker_send
    \/ ParentCancel
    \/ \E c \in Callers :
          \/ RegisterHandlers_call(c)
          \/ RegisterHandlers_rx(c)
          \/ Transmit_call(c)
          \/ atCommand(c)
          \/ refreshMtu(c)

SpecCallback == Init /\ [][NextCallback]_vars

(***************************************************************************)
(* The properties.                                                         *)
(***************************************************************************)
Exited == {"exited_ctx", "exited_err"}

Transactions == {"Transmit", "Mode", "FetchStatus"}

\* A caller's transaction holds the transport: its command is about to be
\* written, or it waits for reply lines.
InFlight(c) == call[c].pc \in {"at_write", "at_wait"}

Waiting(c) == call[c].pc = "at_wait"

Reading(c) == call[c].pc \in {"rd_select", "rd_buffer"}

NoEvent(lines) == \A i \in 1..Len(lines) : ~HasPrefix(lines[i], RxPrefix)

\* C1: at most one transaction is in flight at any time, and it holds the
\* transaction lock; only the transaction in flight writes to the transport or
\* takes a line from the reply queue, the lines it takes are the ones it
\* collects, and a transaction enters only when the lock is free.
C1_OneTransactionInFlight ==
    /\ [](\A c \in Callers : InFlight(c) => atCommandMutex = c)
    /\ [][(devWritten' # devWritten \/ taken' # taken) =>
            \E c \in Callers :
               /\ InFlight(c) /\ atCommandMutex = c
               /\ \A d \in Callers \ {c} : call'[d] = call[d] /\ ret'[d] = ret[d]
               /\ devWritten' # devWritten =>
                     devWritten' = Append(devWritten, call[c].cmd \o <<"\n">>)
               /\ taken' # taken =>
                     \/ call'[c].lines = Append(call[c].lines, Head(msgQueue))
                     \/ ~InFlight(c)']_vars
    /\ [][\A c \in Callers : ~InFlight(c) /\ InFlight(c)' => atCommandMutex = "free"]_vars

\* C1: one transaction waits for its reply while another waits for the lock.
C1_SecondBlocked ==
    \E c, d \in Callers : Waiting(c) /\ call[c].wrote /\ call[d].pc = "at_lock"

\* C2: no line that begins with "+RX" is in the reply queue, on its way to
\* it or among the lines a transaction took; the line the worker reads goes
\* to the handlers only if it is an event that parses, is dropped if it is
\* an event that does not, and otherwise is the next line appended to the queue.
C2_RoutedToOneDestination ==
    /\ [](/\ NoEvent(msgQueue) /\ NoEvent(taken)
          /\ \A c \in Callers : NoEvent(call[c].lines)
          /\ wpc = "send" => ~HasPrefix(wline, RxPrefix)
          /\ wpc \in {"rlock", "dispatch"} => HasPrefix(lastRead, RxPrefix))
    /\ [][devLeft' # devLeft =>
            /\ msgQueue' = msgQueue
            /\ IF HasPrefix(lastRead', RxPrefix)
               THEN wpc' = IF parsePacketRx(lastRead').err THEN "select" ELSE "rlock"
               ELSE wpc' = "send" /\ wline' = lastRead']_vars
    /\ [][wpc = "send" /\ wpc' # "send" => msgQueue' = Append(msgQueue, wline)]_vars

\* C2: an event line that does not parse has been read and dropped, a reply
\* being in the queue.
C2_UnparsedEventDropped == lastRead = RxBadLine /\ wpc = "select" /\ msgQueue # <<>>

\* The line the worker holds for the reply queue.
InHand == IF wpc = "send" THEN <<wline>> ELSE <<>>

\* C3: the lines the transactions took, then the lines in the reply queue,
\* are the lines that are no events in the order the transport delivered
\* them, up to the one the worker still holds for the queue.
C3_RepliesInDeliveryOrder == taken \o msgQueue \o InHand = replies

\* C3: a line has been taken and the queue holds two more.
C3_TakenAndQueued == Len(taken) >= 1 /\ Len(msgQueue) >= 2

\* The number of the line the worker read last, along the transport's order.
Serial == MaxLines - devLeft

\* C4: during a dispatch pass the callbacks are those registered as it
\* began; the ones invoked for the event so far are exactly the first of
\* them, each once; and every callback gets the events in the order of their lines.
C4_DispatchOnceInOrder ==
    /\ [](wpc = "dispatch" =>
            /\ rxHandlers = wrange
            /\ \A i, j \in 1..Len(wrange) : wrange[i] = wrange[j] => i = j
            /\ \A j \in 1..Len(wrange) :
                  j < wi <=> /\ rxLog[wrange[j]] # <<>>
                             /\ rxLog[wrange[j]][Len(rxLog[wrange[j]])] = Serial)
    /\ [](\A c \in Callers : \A i, j \in 1..Len(rxLog[c]) :
            i < j => rxLog[c][i] < rxLog[c][j])
    /\ [][wpc = "dispatch" /\ wpc' # "dispatch" => wi = Len(wrange) + 1]_vars
    /\ [][wpc # "dispatch" /\ wpc' = "dispatch" => wrange' = rxHandlers]_vars

\* C4: a pass has invoked its callback while a Close or a RegisterHandlers
\* waits for the lock.
C4_PassWithWriterWaiting ==
    /\ wpc = "dispatch" /\ Len(wrange) >= 1 /\ wi = Len(wrange) + 1
    /\ handlerMutex.writer # "none"

\* C5: a transaction started after Close has returned writes nothing to the
\* transport and, once it returns, has returned io.EOF.
C5_NothingAfterClose ==
    \A c \in Callers :
       call[c].late /\ call[c].op \in Transactions =>
          /\ ~call[c].wrote
          /\ call[c].pc = "idle" => ret[c].err = "EOF"

\* C6: once the context is done and no operation is running, the worker has
\* exited or can take its next step towards it.
C6_WorkerStops ==
    ctxDone /\ (\A c \in Callers : call[c].pc = "idle") =>
       wpc \in Exited \/ ENABLED worker(DeviceLines)

\* C7 as stated: a transaction that waited for reply lines as the context
\* was cancelled has, once it returns, returned io.EOF.
C7_CancelledReturnsEOF ==
    \A c \in Callers : call[c].hit /\ call[c].pc = "idle" => ret[c].err = "EOF"

\* C7, amended: a transaction that waits for reply lines once the context
\* is done stops waiting and no longer holds the transaction lock; it ends
\* its wait releasing the lock, with io.EOF unless on a line it takes from the queue.
C7_CancelledStopsWaiting ==
    /\ \A c \in Callers : (Waiting(c) /\ ctxDone) ~> (~Waiting(c) /\ atCommandMutex # c)
    /\ [][\A c \in Callers : Waiting(c) /\ ctxDone /\ ~Waiting(c)' =>
            /\ atCommandMutex' = "free"
            /\ taken' # taken \/ (call'[c].pc = "idle" /\ ret'[c].err = "EOF")]_vars

\* C7: a transaction that waited as the context was cancelled has returned
\* io.EOF, the lock free again.
C7_CancelledReturned ==
    \E c \in Callers :
       /\ call[c].hit /\ call[c].pc = "idle" /\ ret[c].err = "EOF"
       /\ atCommandMutex = "free"

\* C8: a Read returns once the context is done, and returns once its Stream's
\* buffer holds bytes unless another Read takes them; it returns the bytes
\* it took from a buffer that held some, as many as its slice takes, or 0 and
\* io.EOF, the latter only with the context done.
C8_ReadReturns ==
    /\ \A c \in Callers : (Reading(c) /\ ctxDone) ~> ~Reading(c)
    /\ \A c \in Callers :
          (Reading(c) /\ rxBuff[call[c].stream] # <<>>)
             ~> (~Reading(c) \/ rxBuff[call[c].stream] = <<>>)
    /\ [][\A c \in Callers : Reading(c) /\ ~Reading(c)' =>
            \/ ret'[c].err = "EOF" /\ ret'[c].n = 0 /\ ctxDone /\ UNCHANGED rxBuff
            \/ /\ ret'[c].err = "nil" /\ rxBuff[call[c].stream] # <<>>
               /\ ret'[c].n = Min(call[c].arg, Len(rxBuff[call[c].stream]))
               /\ rxBuff'[call[c].stream] = DropPrefix(rxBuff[call[c].stream], ret'[c].n)]_vars

\* C8: a Read that found the buffer empty has returned bytes.
C8_BlockedReadGotData ==
    \E c \in Callers :
       /\ call[c].op = "Read" /\ call[c].waited /\ call[c].pc = "idle"
       /\ ret[c].err = "nil" /\ ret[c].n > 0

\* C9: once the worker has exited, a transport that can be closed has been
\* closed; it is closed at most once, and only by the worker as it exits.
C9_ClosedOnceByWorker ==
    /\ devCloser.closed <= 1
    /\ devCloser.closed = 1 => wpc \in Exited
    /\ wpc \in Exited /\ ~devCloser.nil => devCloser.closed = 1

\* C10: a transaction started after the worker exited on a read error can
\* take its next step until it returns, and returns an error.
C10_FailsAfterReadError ==
    \A c \in Callers :
       call[c].orphan /\ call[c].op \in Transactions =>
          /\ call[c].pc # "idle" => ENABLED atCommand(c)
          /\ call[c].pc = "idle" => ret[c].err # "nil"

\* C11: a line for the reply queue that finds the queue full does not leave
\* the worker waiting: the worker can take its next step, the overflow being
\* a fault that ends the session.
C11_OverflowIsFatal ==
    wpc = "send" /\ Len(msgQueue) = QueueCap => ENABLED worker(DeviceLines)

\* C12: Close does not return before the worker has exited: once a Close
\* has returned, the worker goroutine has terminated.
C12_CloseWaitsForWorker == closeReturned => wpc \in Exited

RECURSIVE Sum(_)
Sum(counts) == IF counts = <<>> THEN 0 ELSE Head(counts) + Sum(Tail(counts))

RECURSIVE Concat(_)
Concat(chunks) == IF chunks = <<>> THEN <<>> ELSE Head(chunks) \o Concat(Tail(chunks))

\* A caller's Write has returned.
Wrote(c) == call[c].op = "Write" /\ call[c].pc = "idle"

FixedMtu(c, M) == \A i \in 1..Len(call[c].loads) : call[c].loads[i] = M

\* C13: a Write of L bytes that found the same greatest payload size M at
\* every chunk and whose Transmits all returned without error has called
\* Transmit ceil(L/M) times, never with more than M bytes, and has returned
\* the sum of the counts the device reported, which is L when each count is
\* that of the bytes of its chunk.
C13_ChunksOfFixedMtu ==
    \A c \in Callers : \A M \in 1..3 :
       Wrote(c) /\ ret[c].err = "nil" /\ FixedMtu(c, M) =>
          /\ Len(call[c].chunks) = (Len(call[c].p) + M - 1) \div M
          /\ \A i \in 1..Len(call[c].chunks) : Len(call[c].chunks[i]) <= M
          /\ Len(call[c].counts) = Len(call[c].chunks)
          /\ ret[c].n = Sum(call[c].counts)
          /\ (\A i \in 1..Len(call[c].chunks) : call[c].counts[i] = Len(call[c].chunks[i]))
                => ret[c].n = Len(call[c].p)

\* C13: a Write of three bytes in chunks of at most two has returned 3.
C13_ThreeBytesInTwoChunks ==
    \E c \in Callers :
       /\ Wrote(c) /\ ret[c].err = "nil" /\ ret[c].n = 3
       /\ call[c].loads = <<2, 2>> /\ Len(call[c].p) = 3

\* C14: each chunk of a Write is no larger than the greatest payload size
\* loaded for it, which is the Stream's as the chunk is cut; the chunks
\* transmitted so far are, one after the other, the beginning of the input,
\* and all of the input once the Write returns without error.
C14_ChunksCoverInput ==
    /\ [](\A c \in Callers : call[c].op = "Write" =>
            /\ Len(call[c].loads) = Len(call[c].chunks)
            /\ \A i \in 1..Len(call[c].chunks) : Len(call[c].chunks[i]) <= call[c].loads[i]
            /\ Len(Concat(call[c].chunks)) <= Len(call[c].p)
            /\ Concat(call[c].chunks) = SubSeq(call[c].p, 1, Len(Concat(call[c].chunks)))
            /\ Wrote(c) /\ ret[c].err = "nil" => Concat(call[c].chunks) = call[c].p)
    /\ [][\A c \in Callers :
            call[c].op = "Write" /\ Len(call'[c].loads) > Len(call[c].loads) =>
               call'[c].loads = Append(call[c].loads, mtu[call[c].stream])]_vars

\* C14: a Write has returned all of its input sent, the greatest payload
\* size having changed between its chunks.
C14_MtuChangedBetweenChunks ==
    \E c \in Callers :
       /\ Wrote(c) /\ ret[c].err = "nil" /\ ret[c].n = Len(call[c].p)
       /\ Len(call[c].loads) >= 2 /\ call[c].loads[1] # call[c].loads[2]

\* The Transmit that a Write runs ends in this step, and fails: the command
\* is not written, or the wait ends with no line taken, or on a line that
\* Transmit does not accept.
TransmitFails(c) ==
    /\ call[c].phase = "wtx"
    /\ \/ call[c].pc = "at_write" /\ call'[c].pc # "at_write" /\ call'[c].pc # "at_wait"
       \/ /\ call[c].pc = "at_wait" /\ call'[c].pc # "at_wait"
          /\ taken' = taken \/ TransmitReply(Head(msgQueue)).err # "nil"

\* C15: when a Transmit of a Write fails the Write returns at once, with the
\* error and the sum of the counts of the Transmits before; a Write that has
\* returned an error has called Transmit no more than once after its last
\* successful Transmit.
C15_StopsAtFirstError ==
    /\ [][\A c \in Callers : TransmitFails(c) =>
            /\ call'[c].pc = "idle"
            /\ ret'[c].err \notin {"nil", "none"}
            /\ ret'[c].n = Sum(call[c].counts)
            /\ call'[c].chunks = call[c].chunks]_vars
    /\ [](\A c \in Callers : Wrote(c) /\ ret[c].err \notin {"nil", "none"} =>
            /\ Len(call[c].chunks) = Len(call[c].counts) + 1
            /\ ret[c].n = Sum(call[c].counts))

\* C15: a Write has returned an error and the count of its first chunk, the
\* rest of its input not handed to Transmit.
C15_FailedAfterFirstChunk ==
    \E c \in Callers :
       /\ Wrote(c) /\ ret[c].err \notin {"nil", "none"} /\ ret[c].n >= 1
       /\ Len(call[c].chunks) = 2 /\ Len(Concat(call[c].chunks)) < Len(call[c].p)

\* C16: for every Stream the bytes its Reads have returned, followed by the
\* bytes in its buffer, are the payloads of the events dispatched to it, in
\* the order of dispatch; a Read returns the first bytes of the buffer, as
\* many as its slice takes, and leaves the rest in the buffer.
C16_BytesInArrivalOrder ==
    /\ [](\A s \in Callers : consumed[s] \o rxBuff[s] = delivered[s])
    /\ [][\A c \in Callers : Reading(c) /\ ~Reading(c)' /\ ret'[c].err = "nil" =>
            /\ ret'[c].n = Min(call[c].arg, Len(rxBuff[call[c].stream]))
            /\ consumed'[call[c].stream] =
                  consumed[call[c].stream] \o SubSeq(rxBuff[call[c].stream], 1, ret'[c].n)
            /\ rxBuff'[call[c].stream] = DropPrefix(rxBuff[call[c].stream], ret'[c].n)]_vars

\* C16: two Reads into slices of one byte have returned the two bytes of
\* one event, the second Read the byte the first left, and a later event is
\* in the buffer.
C16_RemainderReadNext ==
    \E s \in Callers :
       /\ consumed[s] = <<66, 67>> /\ rxBuff[s] = <<66, 67>>
       /\ \E c \in Callers : call[c].op = "Read" /\ call[c].pc = "idle" /\ call[c].arg = 1

\* C17: a Write of a non-empty input that started after Close returned
\* does not return nil.
C17_WriteFailsAfterClose ==
    \A c \in Callers :
       Wrote(c) /\ call[c].late /\ call[c].p # <<>> => ret[c].err # "nil"

Configuring(c) == call[c].op \in {"Mode", "Frequency"}

\* The prefix of the reply that Mode and Frequency expect.
Expected(c) == IF call[c].phase = "mode" THEN OkPrefix ELSE FreqPrefix

\* A caller's Mode or Frequency takes its reply line in this step.
Replied(c) ==
    call[c].phase \in {"mode", "freq"} /\ call[c].pc = "at_wait" /\ taken' # taken

\* C18: when the reply to Mode or Frequency begins as expected the operation
\* goes on to fetch the status; while it invokes the MTU callbacks these are
\* the callbacks registered, the ones invoked so far are the first of them in
\* the order of registration, each once and each given the greatest packet
\* size of the status fetched; and it returns nil only with all of them invoked.
C18_RefreshAfterConfigure ==
    /\ [][\A c \in Callers : Replied(c) /\ HasPrefix(Head(msgQueue), Expected(c)) =>
            /\ call'[c].pc = "at_lock" /\ call'[c].phase = "refresh"
            /\ call'[c].cmd = CmdInfo]_vars
    /\ [][\A c \in Callers :
            Configuring(c) /\ call[c].pc = "at_wait" /\ call'[c].pc = "mtu_rlock" =>
               call'[c].val =
                  FetchStatusReply(Append(call[c].lines, Head(msgQueue))).status.Mtu]_vars
    /\ [](\A c \in Callers : Configuring(c) /\ call[c].pc = "mtu_dispatch" =>
            /\ call[c].range = mtuHandlers
            /\ \A i, j \in 1..Len(call[c].range) : call[c].range[i] = call[c].range[j] => i = j
            /\ Len(call[c].told) = call[c].i - 1
            /\ \A j \in 1..Len(call[c].told) :
                  j <= Len(call[c].range) /\ call[c].told[j] = call[c].range[j])
    /\ [][\A c \in Callers :
            Configuring(c) /\ call[c].pc # "idle" /\ call'[c].told # call[c].told =>
            /\ call[c].pc = "mtu_dispatch"
            /\ call'[c].told = Append(call[c].told, call[c].range[call[c].i])
            /\ mtu'[call[c].range[call[c].i]] = call[c].val]_vars
    /\ [][\A c \in Callers :
            Configuring(c) /\ call[c].pc # "idle" /\ call'[c].pc = "idle"
               /\ ret'[c].err = "nil" =>
                  /\ call[c].pc = "mtu_dispatch"
                  /\ call[c].told = mtuHandlers]_vars

\* C18: a Mode or a Frequency has returned nil with the callbacks of two
\* Streams invoked.
C18_TwoCallbacksTold ==
    \E c \in Callers :
       /\ Configuring(c) /\ call[c].pc = "idle" /\ ret[c].err = "nil"
       /\ Len(call[c].told) = 2

\* C19: when the reply to Mode or Frequency does not begin as expected the
\* operation returns at once an error that carries the reply as received,
\* writes nothing more to the transport and invokes no callback; such an
\* operation has fetched no status.
C19_UnexpectedReplyNamed ==
    /\ [][\A c \in Callers : Replied(c) /\ ~HasPrefix(Head(msgQueue), Expected(c)) =>
            /\ call'[c].pc = "idle"
            /\ ret'[c].err = "unexpected response"
            /\ ret'[c].msg = Head(msgQueue)
            /\ UNCHANGED <<devWritten, mtu>>]_vars
    /\ [](\A c \in Callers :
            Configuring(c) /\ call[c].pc = "idle" /\ ret[c].err = "unexpected response" =>
               call[c].phase # "refresh" /\ call[c].told = <<>>)

\* C19: a Frequency has returned the error naming an unexpected reply, a
\* callback being registered.
C19_FrequencyRejectedReply ==
    \E c \in Callers :
       /\ call[c].op = "Frequency" /\ call[c].pc = "idle"
       /\ ret[c].err = "unexpected response" /\ ret[c].msg = FailLine
       /\ mtuHandlers # <<>>

\* C20: a Mode called with a mode below 0 or above maxModemMode returns its
\* error in the step that calls it: it never waits for the transaction
\* lock, writes nothing, takes no line and invokes no callback.
C20_UnknownModeRejected ==
    /\ [](\A c \in Callers :
            call[c].op = "Mode" /\ (call[c].arg < 0 \/ call[c].arg > maxModemMode) =>
               /\ call[c].pc = "idle" /\ ret[c].err = "modem mode"
               /\ call[c].phase = "none" /\ ~call[c].wrote /\ call[c].told = <<>>)
    /\ [][\A c \in Callers :
            /\ call'[c].op = "Mode" /\ ncalls' # ncalls /\ call[c].pc = "idle"
            /\ call'[c].arg < 0 \/ call'[c].arg > maxModemMode
            => UNCHANGED <<devWritten, atCommandMutex, msgQueue, taken, mtu>>]_vars

\* C20: Mode has rejected a mode below 0 while a transaction of the other
\* caller is in flight.
C20_RejectedWhileInFlight ==
    \E c, d \in Callers :
       /\ call[c].op = "Mode" /\ call[c].arg < 0 /\ ret[c].err = "modem mode"
       /\ InFlight(d)

Parsed(c) == call[c].op = "parsePacketRx"

\* C23: parsePacketRx on a line of the wire grammar, with the line ended by
\* "\n" or "\r\n" and the hex digits in either case, returns no error and the
\* record of the payload's bytes and of the two signed decimals, whatever
\* the sequence number.
C23_GrammarLinesParse ==
    \A c \in Callers : Parsed(c) /\ ~call[c].test.errors =>
       ret[c].err = "nil" /\ ret[c].rx = call[c].test.rx

\* C23: a line ended by "\r\n" with upper-case hex digits and a negative
\* rssi has been parsed.
C23_UpperCaseParsed ==
    \E c \in Callers :
       /\ Parsed(c) /\ ret[c].err = "nil"
       /\ ret[c].rx = [Payload |-> <<172, 171>>, Rssi |-> 0 - 15, Snr |-> 8]
       /\ call[c].test.msg =
             RxForm(<<"1", "2">>, <<"A", "C", "A", "B">>, <<"-", "1", "5">>, <<"8">>,
                    <<"\r", "\n">>)

\* C24: parsePacketRx on a line that is no event returns an error, and the
\* record it returns with an error is RxMessage{}.
C24_ErrorReturnsZeroRecord ==
    \A c \in Callers : Parsed(c) =>
       /\ call[c].test.errors => ret[c].err # "nil"
       /\ ret[c].err # "nil" => ret[c].rx = ZeroRxMessage

\* The status lines with a key FetchStatus does not know or a value that
\* does not decode.
BadStatusLines == {BadMtuLine, UnknownLine, BadConfigLine}

AnyBad(lines) == \E i \in 1..Len(lines) : lines[i] \in BadStatusLines

\* A caller's status transaction takes its last line in this step.
Fetched(c) ==
    /\ call[c].phase \in {"info", "refresh"} /\ call[c].pc = "at_wait"
    /\ taken' # taken /\ call'[c].pc # "at_wait"

Erred(c) == call[c].pc = "idle" /\ ret[c].err \notin {"nil", "none"}

\* C21: a status transaction whose lines hold one with an unknown key or an
\* undecodable value, wherever in the reply, ends with an error and the zero
\* Status, and no Stream's mtu changes; a FetchStatus that returned an error
\* returned the zero Status, and an operation whose refresh failed has
\* invoked no MTU callback.
C21_NoPartialSnapshot ==
    /\ [][\A c \in Callers :
            Fetched(c) /\ AnyBad(Append(call[c].lines, Head(msgQueue))) =>
               /\ call'[c].pc = "idle"
               /\ ret'[c].err \notin {"nil", "none"}
               /\ ret'[c].status = ZeroStatus
               /\ mtu' = mtu]_vars
    /\ [](\A c \in Callers : Erred(c) =>
            /\ ret[c].status = ZeroStatus
            /\ call[c].op = "NewStream" => call[c].told = <<>>)

\* C21: a FetchStatus has returned an error and the zero Status for a reply
\* with an integer field that is no integer before a well-formed line.
C21_BadIntegerThenValid ==
    \E c \in Callers :
       /\ call[c].op = "FetchStatus" /\ Erred(c) /\ ret[c].status = ZeroStatus
       /\ taken = <<BadMtuLine, BfbLine, OkLine>>

Told(c, stream) == \E i \in 1..Len(call[c].told) : call[c].told[i] = stream

\* C22: a NewStream that has returned nil has invoked the MTU callback of
\* its Stream, in the refresh that followed the registration.
C22_RegisteredIsRefreshed ==
    \A c \in Callers :
       call[c].op = "NewStream" /\ call[c].pc = "idle" /\ ret[c].err = "nil" => Told(c, c)

\* The device echoes in this step the packet of caller c's Transmit.
Echoed(c) == devSeen' > devSeen /\ atCommandMutex = c /\ call[c].op = "Transmit"

\* C25: the event that echoes a transmitted payload parses, and its payload
\* is the payload transmitted.
C25_EchoRecoversPayload ==
    [][\A c \in Callers : Echoed(c) => wpc' = "rlock" /\ wrx'.Payload = call[c].p]_vars

\* C25, for the payloads that hold a byte.
C25_EchoRecoversBytes ==
    [][\A c \in Callers : Echoed(c) /\ call[c].p # <<>> =>
          wpc' = "rlock" /\ wrx'.Payload = call[c].p]_vars

\* The reply lines of the form "+SENT <count> bytes.", and their counts.
SentForms == {[line |-> SentOf(3), n |-> 3], [line |-> Sent07Line, n |-> 7]}

Transmitting(c) == call[c].op = "Transmit" /\ call[c].phase = "tx"

\* C26: a Transmit writes one command, which carries all of its input, and
\* takes one line, on which it returns: the count of a line of the form
\* "+SENT <count> bytes." and no error, 0 and an error for any other line;
\* once in its transaction it does not begin another.
C26_TransmitOneTransaction ==
    /\ [][\A c \in Callers :
            Transmitting(c) /\ call[c].pc = "at_write" /\ call'[c].pc = "at_wait" =>
               /\ ~call[c].wrote
               /\ devWritten' = Append(devWritten, CmdTx \o HexEncode(call[c].p) \o <<"\n">>)
               /\ TxBytes(devWritten'[Len(devWritten')]) = Len(call[c].p)]_vars
    /\ [][\A c \in Callers : Transmitting(c) /\ call[c].pc = "at_wait" /\ taken' # taken =>
            /\ call'[c].pc = "idle"
            /\ taken' = Append(taken, Head(msgQueue))
            /\ msgQueue' = Tail(msgQueue)
            /\ devWritten' = devWritten
            /\ \A f \in SentForms : f.line = Head(msgQueue) =>
                   ret'[c].n = f.n /\ ret'[c].err = "nil"
            /\ (\A f \in SentForms : f.line # Head(msgQueue)) =>
                   ret'[c].n = 0 /\ ret'[c].err \notin {"nil", "none"}]_vars
    /\ [][\A c \in Callers : Transmitting(c) /\ InFlight(c) =>
            call'[c].pc \in {"at_write", "at_wait", "idle"}]_vars
    /\ [](\A c \in Callers : Transmitting(c) /\ call[c].pc = "idle" => call[c].wrote)

\* C26: a Transmit of five bytes has written one command and returned the
\* count of its reply, 7.
C26_FiveBytesOneCommand ==
    \E c \in Callers :
       /\ Transmitting(c) /\ call[c].pc = "idle" /\ Len(call[c].p) = 5
       /\ ret[c].n = 7 /\ ret[c].err = "nil"
       /\ Len(devWritten) = 1 /\ Len(taken) = 1

\* Caller c's refreshMtu invokes the MTU callback of a Stream in this step.
Refreshes(c, stream) ==
    /\ call[c].pc = "mtu_dispatch" /\ call[c].i <= Len(call[c].range)
    /\ call[c].range[call[c].i] = stream
    /\ call'[c].told = Append(call[c].told, stream)

\* C27: the mtu of a Stream changes only in a step in which a refreshMtu
\* invokes the Stream's callback, and becomes the greatest packet size of the
\* status that refreshMtu fetched; a refreshMtu invokes callbacks only after
\* its FetchStatus returned without error.
C27_MtuOnlyByRefresh ==
    /\ [][\A s \in Callers : mtu'[s] # mtu[s] =>
            \E c \in Callers : Refreshes(c, s) /\ mtu'[s] = call[c].val]_vars
    /\ [][\A c \in Callers : call[c].pc = "at_wait" /\ call'[c].pc = "mtu_rlock" =>
            /\ call[c].phase = "refresh"
            /\ FetchStatusReply(Append(call[c].lines, Head(msgQueue))).err = "nil"
            /\ call'[c].val =
                  FetchStatusReply(Append(call[c].lines, Head(msgQueue))).status.Mtu]_vars
    /\ [][\A c \in Callers : call[c].pc # "mtu_rlock" /\ call'[c].pc = "mtu_rlock" =>
            call[c].pc = "at_wait"]_vars

\* C27: a Stream keeps its mtu of 2 after an event was dispatched to it and
\* a Mode or a Frequency of the other caller failed on an unexpected reply.
C27_KeptThroughFailure ==
    \E s, c \in Callers :
       /\ mtu[s] = 2 /\ rxBuff[s] # <<>>
       /\ Configuring(c) /\ call[c].pc = "idle" /\ ret[c].err = "unexpected response"

\* The caller's transaction was started by atCommand with a stop function
\* that asks for lines until "+OK".
UntilOk(c) == call[c].phase \in {"info", "refresh"}

\* The caller's waiting transaction takes a line in this step.
Takes(c) == Waiting(c) /\ taken' # taken

\* C28: a waiting transaction takes the line at the head of the reply queue
\* and leaves the rest of the queue as it is; an atCommand goes on waiting
\* exactly when the line does not begin with "+OK", an atCommandOnce returns
\* on its first line; the lines collected so far are the last lines taken, in
\* the order taken, none of them a stop line; and FetchStatus and Transmit
\* return what they make of the lines collected with the stop line at the end.
C28_ConsumesThroughStopLine ==
    /\ [][\A c \in Callers : Takes(c) =>
            /\ taken' = Append(taken, Head(msgQueue))
            /\ msgQueue' = Tail(msgQueue)
            /\ UntilOk(c) => (Waiting(c)' <=> ~HasPrefix(Head(msgQueue), OkPrefix))
            /\ ~UntilOk(c) => ~Waiting(c)'
            /\ Waiting(c)' => call'[c].lines = Append(call[c].lines, Head(msgQueue))
            /\ call[c].phase = "info" /\ ~Waiting(c)' =>
                  ret'[c] = FetchStatus_return(
                               FetchStatusReply(Append(call[c].lines, Head(msgQueue))))
            /\ call[c].phase = "tx" =>
                  ret'[c] = Transmit_return(TransmitReply(Head(msgQueue)))]_vars
    /\ [](\A c \in Callers : Waiting(c) =>
            /\ Len(call[c].lines) <= Len(taken)
            /\ call[c].lines =
                  SubSeq(taken, Len(taken) - Len(call[c].lines) + 1, Len(taken))
            /\ \A i \in 1..Len(call[c].lines) : ~HasPrefix(call[c].lines[i], OkPrefix)
            /\ ~UntilOk(c) => call[c].lines = <<>>)

\* C28: a FetchStatus took a line and then the "+OK" line and returned, and
\* the line that was left in the queue went to the Transmit that followed.
C28_LaterLineLeftForNext ==
    \E c, d \in Callers :
       /\ call[c].op = "FetchStatus" /\ call[c].pc = "idle"
       /\ ret[c] = FetchStatus_return(FetchStatusReply(<<SentLine, OkLine>>))
       /\ call[d].op = "Transmit" /\ call[d].pc = "idle" /\ ret[d].err = "nil"
       /\ taken = <<SentLine, OkLine, SentLine>>
       /\ Len(devWritten) = 2 /\ devWritten[1] = CmdInfo \o <<"\n">>

\* The caller's transaction leaves the write of its command without having
\* written it.
WriteFails(c) == call[c].pc = "at_write" /\ call'[c].pc # "at_write" /\ ~Waiting(c)'

\* C29: a transaction whose write fails returns the error of the write in
\* that step, with no line taken from the reply queue, nothing written to the
\* transport and the transaction lock, which it held, free again; a caller
\* that waits for the lock can then take it; and an operation that returned
\* the error of the write has written nothing.
C29_WriteFailureAborts ==
    /\ [][\A c \in Callers : WriteFails(c) =>
            /\ call'[c].pc = "idle" /\ ret'[c] = Failed("write")
            /\ msgQueue' = msgQueue /\ taken' = taken /\ devWritten' = devWritten
            /\ atCommandMutex = c /\ atCommandMutex' = "free"
            /\ \A d \in Callers \ {c} :
                  call[d].pc = "at_lock" => (ENABLED atCommand_lock(d))']_vars
    /\ [](\A c \in Callers : call[c].pc = "idle" /\ ret[c].err = "write" =>
            call[c].op \in Transactions /\ ~call[c].wrote)

\* C29: one caller's transaction returned the error of the write, and the
\* other caller's transaction then took the lock, wrote its command, the only
\* one the transport received, and waits for its reply.
C29_NextTransactionProceeds ==
    \E c \in Callers, d \in Callers :
       /\ c # d /\ call[c].pc = "idle" /\ ret[c] = Failed("write")
       /\ Waiting(d) /\ call[d].wrote /\ atCommandMutex = d
       /\ devWritten = <<call[d].cmd \o <<"\n">>>>

\* The worker is delivering an event.
Delivering == wpc \in {"rlock", "dispatch"}

\* C30: with no Read ever called, the worker in its range over the handlers
\* can always take its next step; each delivery appends the payload to the
\* Stream's buffer, which so holds every payload delivered to it; the worker
\* delivering an event comes back to its loop; and every transaction begun
\* completes.
C30_DeliveryNeverWaitsForRead ==
    /\ [](wpc = "dispatch" => ENABLED worker_range)
    /\ [](\A s \in Callers : rxBuff[s] = delivered[s] /\ consumed[s] = <<>>)
    /\ [][\A s \in Callers : delivered'[s] # delivered[s] =>
            /\ wpc = "dispatch" /\ wrange[wi] = s
            /\ rxBuff'[s] = rxBuff[s] \o wrx.Payload]_vars
    /\ (Delivering ~> wpc = "select")
    /\ \A c \in Callers : (call[c].pc = "at_lock") ~> (call[c].pc = "idle")

\* C30: a Stream that nobody reads from holds the payloads of two events,
\* and the Transmit begun after them got its reply and returned.
C30_TwoEventsUnreadThenTransmit ==
    \E s, c \in Callers :
       /\ sctx[s] /\ rxBuff[s] = <<65, 65>>
       /\ call[c].op = "Transmit" /\ call[c].pc = "idle"
       /\ ret[c].err = "nil" /\ ret[c].n = 1
       /\ lastRead = SentOf(1)

\* The caller's Read returns in this step.
ReadEnds(c) == call[c].op = "Read" /\ call[c].pc # "idle" /\ call'[c].pc = "idle"

\* C37: a Read returns io.EOF only when the Stream's buffer holds no byte.
C37_NoEofWithBytesBuffered ==
    [][\A c \in Callers : ReadEnds(c) /\ ret'[c].err = "EOF" =>
          rxBuff[call[c].stream] = <<>>]_vars

\* The callbacks registered: those of the Stream of each caller named.
Registered(handlers) == {handlers[i] : i \in 1..Len(handlers)}

\* The caller's NewStream returned the error of RegisterHandlers.
RegistrationFailed(c) ==
    call[c].op = "NewStream" /\ call[c].pc = "idle" /\ ret[c].err # "nil"

\* C33: after a NewStream returned an error the callbacks it passed to
\* RegisterHandlers are in neither callback set.
C33_FailedRegistrationLeavesNothing ==
    \A c \in Callers : RegistrationFailed(c) =>
       c \notin Registered(rxHandlers) /\ c \notin Registered(mtuHandlers)

\* The AT+TX commands among the writes the transport received, in order.
TxWritten == SelectSeq(devWritten, LAMBDA w : HasPrefix(w, CmdTx))

\* The chunks of the caller's Write that the transport has received: all
\* the chunks cut but the last one while its command is not written.
Transmitted(c) ==
    IF call[c].pc \in {"at_lock", "at_write"} \/ (call[c].pc = "idle" /\ ret[c].err = "write")
    THEN SubSeq(call[c].chunks, 1, Len(call[c].chunks) - 1)
    ELSE call[c].chunks

\* The commands that carry the given chunks.
TxCommands(chunks) == [i \in 1..Len(chunks) |-> CmdTx \o HexEncode(chunks[i]) \o <<"\n">>]

\* C36: the chunks of two Writes reach the transport one Write after the
\* other: the commands received are those of one Write followed by those of
\* the other.
C36_WritesNotInterleaved ==
    \A c, d \in Callers :
       c # d /\ call[c].op = "Write" /\ call[d].op = "Write" =>
          \/ TxWritten = TxCommands(Transmitted(c)) \o TxCommands(Transmitted(d))
          \/ TxWritten = TxCommands(Transmitted(d)) \o TxCommands(Transmitted(c))

\* The caller's NewStream, and with it its refreshMtu, returned nil.
Refreshed(c) == call[c].op = "NewStream" /\ call[c].pc = "idle" /\ ret[c].err = "nil"

\* The status that the last status transaction decoded: it took the last
\* two lines taken, a status line and "+OK".
LastStatus == FetchStatusReply(SubSeq(taken, Len(taken) - 1, Len(taken))).status

\* C35: two refreshes that ran at the same time have both returned: every
\* Stream holds the greatest packet size of the status fetched last.
C35_LastStatusWins ==
    \A c, d \in Callers :
       c # d /\ Refreshed(c) /\ Refreshed(d) =>
          \A s \in Callers : mtu[s] = LastStatus.Mtu

\* The Transmit of the caller's Write returns without error in this step,
\* and the loop of Write goes round.
WriteGoesRound(c) ==
    call[c].phase = "wtx" /\ call[c].pc = "at_wait" /\ call'[c].pc = "wr_loop"

\* C34: every round of the loop of Write advances the write position.
C34_WritePositionAdvances ==
    [][\A c \in Callers : WriteGoesRound(c) => call'[c].pos > call[c].pos]_vars

\* C32: every line in the reply queue is a whole reply line that the device
\* sent: no part of an event is in it.
C32_WholeLinesQueued ==
    \A i \in 1..Len(msgQueue) : msgQueue[i] \in {MtuOf(1), OkLine}

\* The worker invokes the event callback of a Stream in this step.
Dispatches(stream) == rxLog'[stream] # rxLog[stream]

\* C38: once a Close has returned, a callback is invoked only if it is in
\* its callback set, that is, if it was registered after the Close emptied
\* the sets; and the range the worker or a refreshMtu walks holds no callback
\* that the Close removed.
C38_NoCallbackAfterClose ==
    /\ [][\A s \in Callers : closeReturned /\ Dispatches(s) =>
            s \in Registered(rxHandlers)]_vars
    /\ [][\A s, c \in Callers : closeReturned /\ Refreshes(c, s) =>
            s \in Registered(mtuHandlers)]_vars
    /\ [](closeReturned /\ wpc = "dispatch" => wrange = rxHandlers)
    /\ [](\A c \in Callers : closeReturned /\ call[c].pc = "mtu_dispatch" =>
            call[c].range = mtuHandlers)

\* C38: a Stream was registered, the worker read an event as Close was
\* called, and with Close returned its range holds no callback.
C38_EventReadDuringClose ==
    \E s \in Callers :
       /\ sctx[s] /\ closeReturned /\ lastRead = RxLine
       /\ wpc = "dispatch" /\ wrange = <<>> /\ rxLog[s] = <<>>

\* A step of caller c's Close, and the step with which it returns.
Closes(c) == call'[c].op = "Close" /\ call'[c] # call[c]

CloseReturns(c) == Closes(c) /\ call'[c].pc = "idle"

\* The Modem as a Close that returned leaves it.
AsClosed == ctxDone /\ rxHandlers = <<>> /\ mtuHandlers = <<>>

\* C39: Close may be called again, after or during another Close: every Close
\* returns nil; no step of it touches the reply queue or the Closer, which is
\* closed at most once; as it returns the context is cancelled and both handler
\* slices are empty; and a step of a Close on a Modem that is as a Close left
\* it changes neither the context, the slices, the queue, the Closer nor the
\* command mutex.
C39_CloseIdempotent ==
    /\ [](devCloser.closed <= 1)
    /\ [][\A c \in Callers :
             /\ Closes(c) =>
                   /\ ctxDone'
                   /\ UNCHANGED <<msgQueue, devCloser, atCommandMutex>>
                   /\ AsClosed => UNCHANGED <<ctxDone, rxHandlers, mtuHandlers>>
             /\ CloseReturns(c) =>
                   /\ ret'[c] = Failed("nil")
                   /\ AsClosed'
                   /\ handlerMutex'.writer = "none"]_vars

\* Two Closes have returned nil, the second called after the first returned
\* and the Closer closed once, with a reply line still in the queue.
C39_ClosedTwice ==
    \E c, d \in Callers :
       /\ c # d
       /\ call[c].op = "Close" /\ call[c].pc = "idle" /\ ret[c] = Failed("nil")
       /\ call[d].op = "Close" /\ call[d].pc = "idle" /\ ret[d] = Failed("nil")
       /\ call[d].late
       /\ devCloser.closed = 1
       /\ msgQueue # <<>>
       /\ AsClosed

\* A handler called by the worker has not returned.
InCallback ==
    \/ wpc \in {"cb_write", "cb_wait"}
    \/ wpc = "dispatch" /\ wi <= Len(wrange)

\* The worker leaves the select of the handler's transaction.
CallbackUnblocks == wpc = "cb_wait" /\ wpc' # "cb_wait"

\* C31 as stated: the transaction of a handler's Transmit ends only with the
\* context done.
C31_BlockedUntilCancelled == [][CallbackUnblocks => ctxDone]_vars

\* C31: while a handler has not returned the worker reads no line, the
\* device's answers included, and appends no line to the reply queue; the
\* command the handler's Transmit wrote stays unanswered; and its transaction
\* ends only with the context done or by taking a line that was in the queue,
\* so that with the queue empty it waits until the context is done.
C31_CallbackStallsWorker ==
    /\ [][InCallback =>
            /\ UNCHANGED <<devLeft, devSeen, devAnswer, lastRead, replies>>
            /\ msgQueue' = msgQueue \/ msgQueue' = Tail(msgQueue)]_vars
    /\ [](wpc = "cb_wait" => devSeen < Len(devWritten))
    /\ [][CallbackUnblocks =>
            \/ ctxDone
            \/ msgQueue # <<>> /\ taken' = Append(taken, Head(msgQueue))]_vars

\* The handler's Transmit waits with the queue empty and the context not
\* done, the device having a line to send, and a caller's Transmit waits for
\* the command mutex the handler's holds.
C31_WorkerStalled ==
    /\ wpc = "cb_wait" /\ msgQueue = <<>> /\ ~ctxDone
    /\ devLeft > 0
    /\ atCommandMutex = Worker
    /\ \E c \in Callers : call[c].op = "Transmit" /\ call[c].pc = "at_lock"

====
